---------------------------- MODULE Spec2Model ----------------------------
(***************************************************************************)
(* Boot-integrity and recovery subsystem of the TriptaLabs heat controller *)
(* (src/main/bootloader).  The persisted key-value store, the application  *)
(* partition and the SD card survive a reboot; the module statics of       *)
(* bootloader_main.c, integrity_checker.c and sd_recovery.c do not.        *)
(* Every public operation is one action; the environment's answers (a      *)
(* failing NVS write, a failing OTA step, ...) are drawn as a set F of     *)
(* fault points for the call.  A behaviour is one call made by the         *)
(* application after reset, on a device whose persisted state is drawn     *)
(* from the states earlier boots can leave; the call's starting state and  *)
(* what it did are kept in call_pre and call_log.                          *)
(***************************************************************************)
EXTENDS Integers, Sequences, FiniteSets, TLC

(* ------------------------------ bounds -------------------------------- *)
\* number of distinct firmware images that exist in the world
NumImages == 2
\* number of environment faults that can hit one call
MaxFaults == 1
\* number of boots of a device that is followed from its first power-up
MaxBoots == 4
\* the digests drawn for the hex conversions are numbered 0..NumDigests
NumDigests == 3

(* ------------------------- program constants -------------------------- *)
MAX_BOOT_ATTEMPTS == 3
MAX_RECOVERY_ATTEMPTS == 3
FIRMWARE_MIN_SIZE == 1048576
FIRMWARE_MAX_SIZE == 9437184
\* boot_attempts and recovery_attempts are uint8_t
UINT8_MOD == 256
\* a digest file holds 64 hex characters
HASH_HEX_LEN == 64
\* bytes of a SHA-256 digest
HASH_LEN == 32

IS_VALID_FIRMWARE_SIZE(size) ==
    size >= FIRMWARE_MIN_SIZE /\ size <= FIRMWARE_MAX_SIZE

(* esp_err_t values *)
ESP_OK == "ESP_OK"
ESP_FAIL == "ESP_FAIL"
ESP_ERR_NO_MEM == "ESP_ERR_NO_MEM"
ESP_ERR_INVALID_ARG == "ESP_ERR_INVALID_ARG"
ESP_ERR_INVALID_STATE == "ESP_ERR_INVALID_STATE"
ESP_ERR_INVALID_SIZE == "ESP_ERR_INVALID_SIZE"
ESP_ERR_NOT_FOUND == "ESP_ERR_NOT_FOUND"
ESP_ERR_INVALID_CRC == "ESP_ERR_INVALID_CRC"
ESP_ERR_FLASH_OP_FAIL == "ESP_ERR_FLASH_OP_FAIL"
ESP_ERR_OTA_VALIDATE_FAILED == "ESP_ERR_OTA_VALIDATE_FAILED"
ESP_ERR_NVS == "ESP_ERR_NVS"
\* esp_restart() was called: the operation did not return
NO_RETURN == "NO_RETURN"

(* boot_reason_t *)
BOOT_REASON_NORMAL == "NORMAL"
BOOT_REASON_CORRUPTION == "CORRUPTION"
BOOT_REASON_UPDATE_FAILED == "UPDATE_FAILED"
BOOT_REASON_RECOVERY == "RECOVERY"
BOOT_REASON_MULTIPLE_FAILURES == "MULTIPLE_FAILURES"
BOOT_REASON_SD_RECOVERY == "SD_RECOVERY"
BOOT_REASON_EMERGENCY == "EMERGENCY"

(* recovery_state_t, with the enum's values *)
RECOVERY_STATE_IDLE == 0
RECOVERY_STATE_CHECKING == 1
RECOVERY_STATE_SD_MOUNT == 2
RECOVERY_STATE_FIRMWARE_VERIFY == 3
RECOVERY_STATE_FLASHING == 4
RECOVERY_STATE_CLEANUP == 5
RECOVERY_STATE_SUCCESS == 6
RECOVERY_STATE_FAILED == 7

(* paths on the SD card *)
SD_BASE_FIRMWARE_PATH == "base_firmware.bin"
SD_BASE_FIRMWARE_HASH_PATH == "base_firmware.bin.sha256"
SD_UPDATE_FIRMWARE_PATH == "update.bin"
SD_UPDATE_FIRMWARE_HASH_PATH == "update.bin.sha256"
\* the paths UpdateFirmware passes to update_perform
UPDATE_DOWNLOAD_PATH == "sdcard_update.bin"
UPDATE_FALLBACK_PATH == "firmware_backup.bin"
NoPath == "none"

SdPaths == {SD_BASE_FIRMWARE_PATH, SD_BASE_FIRMWARE_HASH_PATH,
            SD_UPDATE_FIRMWARE_PATH, SD_UPDATE_FIRMWARE_HASH_PATH,
            UPDATE_DOWNLOAD_PATH, UPDATE_FALLBACK_PATH}

(* ----------------------------- contents ------------------------------- *)
\* Firmware images are numbered; 0 is the content of a partition whose
\* write session was opened and not completed, or that rotted.
TornImage == 0

\* The bytes of an image file are the image; the bytes of the partition
\* are the image followed by the rest of the partition.
PartitionPad == 50
FileBytes(img) == img
PartitionBytes(img) == PartitionPad + img

\* The bytes fread delivered before a read error ended the loop: a proper
\* prefix of the file.
PrefixMark == 100
ReadPrefix(bytes) == PrefixMark + bytes

\* SHA-256 of a byte string: injective on the byte strings of the model,
\* and no byte string hashes to the 0xFF..FF digest.
SHA256(bytes) == 1000 + 7 * bytes
FakeHash == 255
NoHash == 0 - 1

NoFile == [exists |-> FALSE, len |-> 0, data |-> 0]
ImageFile(img) == [exists |-> TRUE, len |-> FIRMWARE_MIN_SIZE, data |-> FileBytes(img)]
\* a digest file holding the 64 hex characters of a digest
DigestFile(d) == [exists |-> TRUE, len |-> HASH_HEX_LEN, data |-> d]

(* bootloader_stats_t *)
ZeroStats ==
    [boot_attempts |-> 0, recovery_attempts |-> 0, total_boots |-> 0,
     total_recoveries |-> 0, last_boot_reason |-> BOOT_REASON_NORMAL,
     last_recovery_timestamp |-> 0, first_boot |-> FALSE]

NoBlob == [present |-> FALSE, val |-> ZeroStats]
Blob(s) == [present |-> TRUE, val |-> s]

(* ------------------------------ faults -------------------------------- *)
\* The places where the environment can make a call of the platform fail.
\* Each is tagged with the stage of the operation it hits.
IntegrityFaults == {"no_partition", "malloc", "part_read", "nvs_read", "nvs_write"}
RunFaults == {"mount", "hash_open", "fw_open", "verify_malloc", "fw_read", "flash_open",
              "no_partition", "ota_begin", "flash_malloc", "ota_write", "flash_read",
              "ota_end", "set_boot", "rehash_read", "nvs_write", "rm_fw", "rm_hash"}
StatsFaults == {"save1", "save2"}
DownloadFaults == {"mount", "http_init", "http_open", "fopen", "fwrite", "no_data"}
FlashFileFaults == {"fopen", "no_partition", "ota_begin", "ota_write", "fread",
                    "ota_end", "set_boot"}
InitFaults == {"nvs_flash_init", "nvs_open", "nvs_get_blob", "integrity_open"}

FaultPoints ==
    ({"integrity"} \X IntegrityFaults) \cup
    ({"auto", "manual"} \X RunFaults) \cup
    ({"stats"} \X StatsFaults) \cup
    ({"init"} \X InitFaults) \cup
    ({"find"} \X {"mount"}) \cup
    ({"selftest"} \X {"mount", "tmp_open"}) \cup
    ({"download"} \X DownloadFaults) \cup
    ({"flash1", "flash2"} \X FlashFileFaults) \cup
    ({"hashgen"} \X {"no_partition", "malloc", "part_read", "nvs_write"})

\* the sets of at most k fault points taken from P
RECURSIVE FaultSetsUpTo(_, _)
FaultSetsUpTo(P, k) ==
    IF k = 0 THEN {{}}
    ELSE LET prev == FaultSetsUpTo(P, k - 1)
         IN  prev \cup {s \cup {x} : s \in prev, x \in P}

\* the fault sets that can hit a call that goes through the given stages
FaultSets(stages) ==
    FaultSetsUpTo({p \in FaultPoints : p[1] \in stages}, MaxFaults)

Hit(F, stage, point) == <<stage, point>> \in F


(* ------------------------- the machine record ------------------------- *)
\* Operators that model C functions take and return a record m holding the
\* state a call can touch:
\*   stats        bootloader_stats (static of bootloader_main.c)
\*   handle       bootloader_nvs_handle is an open handle
\*   initialized  bootloader_initialized
\*   ic_init      integrity_checker_initialized
\*   mounted      sd_mounted
\*   pending      is_update_pending (static of update.c)
\*   nvs_stats    the "stats" blob of namespace "bootloader"
\*   app_hash     the "app_hash" blob of namespace "bootloader"
\*   part, part_size   content and size of the running partition
\*   sd, card     the files of the SD card, and whether a card is inserted
\*   log          what the call did, in order
\*   saves        number of save_bootloader_stats calls made by the call
\*   ret          the esp_err_t of the function that returned last
\*   info         the firmware_info_t written last
\*   fw, hp       firmware_path and hash_path found last

Event(ev, stage, path, val) == [ev |-> ev, stage |-> stage, path |-> path, val |-> val]

Say(m, ev, stage, path, val) == [m EXCEPT !.log = Append(@, Event(ev, stage, path, val))]

Ret(m, r) == [m EXCEPT !.ret = r]

ZeroInfo == [valid |-> FALSE, size |-> 0, calculated_hash |-> 0,
             stored_hash |-> 0, hash_match |-> FALSE]

SaveFaultName(n) == IF n = 1 THEN "save1" ELSE "save2"

(* ---------------------- bootloader_main.c, private -------------------- *)
save_bootloader_stats(m, F) ==
    LET n == m.saves + 1
        good == m.handle /\ ~Hit(F, "stats", SaveFaultName(n))
        m1 == [m EXCEPT !.saves = n]
    IN  IF good
        THEN Ret(Say([m1 EXCEPT !.nvs_stats = Blob(m.stats)], "nvs_save", "stats", NoPath, n), ESP_OK)
        ELSE Ret(m1, ESP_ERR_NVS)

reset_boot_counters(m, F) ==
    save_bootloader_stats(
        [m EXCEPT !.stats.boot_attempts = 0, !.stats.recovery_attempts = 0], F)

\* should_force_recovery without its recovery_attempts clause
should_force_recovery_boot_only(stats) ==
    stats.boot_attempts >= MAX_BOOT_ATTEMPTS

should_force_recovery(stats) ==
    \/ stats.boot_attempts >= MAX_BOOT_ATTEMPTS
    \/ stats.recovery_attempts >= MAX_RECOVERY_ATTEMPTS

record_recovery_event(m, success, now, F) ==
    LET m1 == [m EXCEPT !.stats.total_recoveries = @ + 1,
                        !.stats.last_recovery_timestamp = now]
        m2 == IF success
              THEN [m1 EXCEPT !.stats.recovery_attempts = 0,
                              !.stats.last_boot_reason = BOOT_REASON_SD_RECOVERY]
              ELSE [m1 EXCEPT !.stats.recovery_attempts = (@ + 1) % UINT8_MOD,
                              !.stats.last_boot_reason = BOOT_REASON_RECOVERY]
    IN  save_bootloader_stats(m2, F)

(* ------------------------- integrity_checker.c ------------------------ *)
\* [ret, hash]: hash_output is written only when every chunk was read
calculate_partition_sha256(m, malloc_ok, read_ok) ==
    IF ~malloc_ok THEN [ret |-> ESP_ERR_NO_MEM, hash |-> 0]
    ELSE IF ~read_ok THEN [ret |-> ESP_ERR_FLASH_OP_FAIL, hash |-> 0]
    ELSE [ret |-> ESP_OK, hash |-> SHA256(PartitionBytes(m.part))]

\* compare_sha256_hashes finding any two digests equal
compare_sha256_hashes_always_equal(hash1, hash2) == TRUE

compare_sha256_hashes(hash1, hash2) == hash1 = hash2

\* [ret, hash]
read_stored_firmware_hash(m, read_ok) ==
    IF ~m.ic_init THEN [ret |-> ESP_ERR_INVALID_ARG, hash |-> 0]
    ELSE IF m.app_hash = NoHash THEN [ret |-> ESP_ERR_NOT_FOUND, hash |-> 0]
    ELSE IF ~read_ok THEN [ret |-> ESP_FAIL, hash |-> 0]
    ELSE [ret |-> ESP_OK, hash |-> m.app_hash]

store_firmware_hash(m, hash, write_ok) ==
    IF ~m.ic_init THEN Ret(m, ESP_ERR_INVALID_ARG)
    ELSE IF ~write_ok THEN Ret(m, ESP_ERR_NVS)
    ELSE Ret(Say([m EXCEPT !.app_hash = hash], "hash_store", "nvs", NoPath, hash), ESP_OK)

validate_partition_size(size) ==
    IF IS_VALID_FIRMWARE_SIZE(size) THEN ESP_OK ELSE ESP_ERR_INVALID_SIZE

verify_app_partition_integrity(m, F) ==
    LET m0 == [m EXCEPT !.info = ZeroInfo]
        calc == calculate_partition_sha256(m0, ~Hit(F, "integrity", "malloc"),
                                           ~Hit(F, "integrity", "part_read"))
        m1 == [m0 EXCEPT !.info.size = m.part_size]
        m2 == [m1 EXCEPT !.info.calculated_hash = calc.hash]
        rd == read_stored_firmware_hash(m2, ~Hit(F, "integrity", "nvs_read"))
        m3 == [m2 EXCEPT !.info.stored_hash = rd.hash]
        match == compare_sha256_hashes(calc.hash, rd.hash)
        m4 == [m3 EXCEPT !.info.hash_match = match, !.info.valid = match]
    IN  IF Hit(F, "integrity", "no_partition") THEN Ret(m0, ESP_FAIL)
        ELSE IF validate_partition_size(m.part_size) # ESP_OK
        THEN Ret(m0, validate_partition_size(m.part_size))
        ELSE IF calc.ret # ESP_OK THEN Ret(m1, calc.ret)
        ELSE IF rd.ret = ESP_ERR_NOT_FOUND
        THEN Ret([store_firmware_hash(m2, calc.hash, ~Hit(F, "integrity", "nvs_write"))
                    EXCEPT !.info.hash_match = TRUE, !.info.valid = TRUE], ESP_OK)
        ELSE IF rd.ret # ESP_OK THEN Ret(m2, rd.ret)
        ELSE IF match THEN Ret(m4, ESP_OK)
        ELSE Ret(m4, ESP_ERR_INVALID_CRC)

\* Characters are their ASCII codes, a string is the sequence of its
\* characters before the terminating NUL, a digest is a sequence of
\* HASH_LEN bytes.
hex_digits == <<48, 49, 50, 51, 52, 53, 54, 55, 56, 57, 97, 98, 99, 100, 101, 102>>

\* byte_to_hex writing the low nibble first
byte_to_hex_low_first(byte) ==
    <<hex_digits[(byte % 16) + 1], hex_digits[((byte \div 16) % 16) + 1]>>

\* the two characters written for a byte: (byte >> 4) & 0xF, then byte & 0xF
byte_to_hex(byte) ==
    <<hex_digits[((byte \div 16) % 16) + 1], hex_digits[(byte % 16) + 1]>>

hex_char_to_byte(c) ==
    IF c >= 48 /\ c <= 57 THEN c - 48
    ELSE IF c >= 97 /\ c <= 102 THEN c - 97 + 10
    ELSE IF c >= 65 /\ c <= 70 THEN c - 65 + 10
    ELSE 0

hash_to_hex_string(hash) ==
    [j \in 1..(2 * HASH_LEN) |->
        byte_to_hex(hash[(j + 1) \div 2])[IF j % 2 = 1 THEN 1 ELSE 2]]

\* length of the C string held by a buffer that is followed by a NUL
strlen(buf) ==
    IF \E i \in DOMAIN buf : buf[i] = 0
    THEN (CHOOSE i \in DOMAIN buf : buf[i] = 0 /\ \A j \in 1..(i - 1) : buf[j] # 0) - 1
    ELSE Len(buf)

\* [ret, hash]
hex_string_to_hash(hex_string) ==
    IF strlen(hex_string) # 64 THEN [ret |-> ESP_ERR_INVALID_SIZE, hash |-> <<>>]
    ELSE [ret |-> ESP_OK,
          hash |-> [i \in 1..HASH_LEN |->
                      ((hex_char_to_byte(hex_string[2 * i - 1]) * 16) % UINT8_MOD)
                          + hex_char_to_byte(hex_string[2 * i])]]

(* ----------------------------- sd_recovery.c -------------------------- *)
file_exists(m, path) == m.sd[path].exists

Min(a, b) == IF a < b THEN a ELSE b

\* [ret, hash]: fread of at most 64 characters, then hex_string_to_hash
read_hex_hash_file(m, path, open_ok) ==
    IF ~file_exists(m, path) \/ ~open_ok THEN [ret |-> ESP_ERR_NOT_FOUND, hash |-> 0]
    ELSE IF Min(m.sd[path].len, HASH_HEX_LEN) # HASH_HEX_LEN
    THEN [ret |-> ESP_ERR_INVALID_SIZE, hash |-> 0]
    ELSE [ret |-> ESP_OK, hash |-> m.sd[path].data]

\* fread(buf, 1, n, f) from the start of a file with the given content
fread(content, n) == SubSeq(content, 1, Min(Len(content), n))

\* read_hex_hash_file on the characters of the file: [ret, hash]
read_hex_hash_text(content, open_ok) ==
    IF ~open_ok THEN [ret |-> ESP_ERR_NOT_FOUND, hash |-> <<>>]
    ELSE IF Len(fread(content, 64)) # 64
    THEN [ret |-> ESP_ERR_INVALID_SIZE, hash |-> <<>>]
    ELSE hex_string_to_hash(fread(content, 64))

\* write_hex_hash_file: fopen(path, "w") empties the file, fwrite delivers
\* `written` of the 64 characters: [ret, content]
write_hex_hash_file(content, hash, open_ok, written) ==
    IF ~open_ok THEN [ret |-> ESP_FAIL, content |-> content]
    ELSE [ret |-> IF written = 64 THEN ESP_OK ELSE ESP_FAIL,
          content |-> SubSeq(hash_to_hex_string(hash), 1, written)]

mount_sd_card(m, F, stage) ==
    IF m.mounted THEN Ret(m, ESP_OK)
    ELSE IF ~m.card \/ Hit(F, stage, "mount") THEN Ret(m, ESP_FAIL)
    ELSE Ret(Say([m EXCEPT !.mounted = TRUE], "mounted", stage, NoPath, 0), ESP_OK)

\* find_recovery_firmware looking for the base candidate first
find_recovery_firmware_base_first(m, F, stage) ==
    LET m1 == mount_sd_card(m, F, stage)
    IN  IF m1.ret # ESP_OK THEN m1
        ELSE IF file_exists(m1, SD_BASE_FIRMWARE_PATH)
                /\ file_exists(m1, SD_BASE_FIRMWARE_HASH_PATH)
        THEN Ret(Say([m1 EXCEPT !.fw = SD_BASE_FIRMWARE_PATH,
                                !.hp = SD_BASE_FIRMWARE_HASH_PATH],
                     "found", stage, SD_BASE_FIRMWARE_PATH, 0), ESP_OK)
        ELSE IF file_exists(m1, SD_UPDATE_FIRMWARE_PATH)
                /\ file_exists(m1, SD_UPDATE_FIRMWARE_HASH_PATH)
        THEN Ret(Say([m1 EXCEPT !.fw = SD_UPDATE_FIRMWARE_PATH,
                                !.hp = SD_UPDATE_FIRMWARE_HASH_PATH],
                     "found", stage, SD_UPDATE_FIRMWARE_PATH, 0), ESP_OK)
        ELSE Ret(m1, ESP_ERR_NOT_FOUND)

find_recovery_firmware(m, F, stage) ==
    LET m1 == mount_sd_card(m, F, stage)
    IN  IF m1.ret # ESP_OK THEN m1
        ELSE IF file_exists(m1, SD_UPDATE_FIRMWARE_PATH)
                /\ file_exists(m1, SD_UPDATE_FIRMWARE_HASH_PATH)
        THEN Ret(Say([m1 EXCEPT !.fw = SD_UPDATE_FIRMWARE_PATH,
                                !.hp = SD_UPDATE_FIRMWARE_HASH_PATH],
                     "found", stage, SD_UPDATE_FIRMWARE_PATH, 0), ESP_OK)
        ELSE IF file_exists(m1, SD_BASE_FIRMWARE_PATH)
                /\ file_exists(m1, SD_BASE_FIRMWARE_HASH_PATH)
        THEN Ret(Say([m1 EXCEPT !.fw = SD_BASE_FIRMWARE_PATH,
                                !.hp = SD_BASE_FIRMWARE_HASH_PATH],
                     "found", stage, SD_BASE_FIRMWARE_PATH, 0), ESP_OK)
        ELSE Ret(m1, ESP_ERR_NOT_FOUND)

verify_sd_firmware_integrity(m, F, stage, firmware_path, hash_path) ==
    LET expected == read_hex_hash_file(m, hash_path, ~Hit(F, stage, "hash_open"))
        \* the loop ends when fread returns 0, at the end of the file or on a
        \* read error; the digest is finished over what was read
        calculated == IF Hit(F, stage, "fw_read")
                      THEN SHA256(ReadPrefix(m.sd[firmware_path].data))
                      ELSE SHA256(m.sd[firmware_path].data)
        hashed == IF Hit(F, stage, "fw_read")
                  THEN Say(m, "fread_error", stage, firmware_path, calculated)
                  ELSE m
    IN  IF ~file_exists(m, firmware_path) THEN Ret(m, ESP_ERR_NOT_FOUND)
        ELSE IF ~file_exists(m, hash_path) THEN Ret(m, ESP_ERR_NOT_FOUND)
        ELSE IF expected.ret # ESP_OK THEN Ret(m, expected.ret)
        ELSE IF Hit(F, stage, "fw_open") THEN Ret(m, ESP_FAIL)
        ELSE IF Hit(F, stage, "verify_malloc") THEN Ret(m, ESP_ERR_NO_MEM)
        ELSE IF compare_sha256_hashes(calculated, expected.hash)
        THEN Ret(Say(hashed, "verified", stage, firmware_path, calculated), ESP_OK)
        ELSE Ret(hashed, ESP_ERR_INVALID_CRC)

\* flash_firmware_from_sd returning a chunk-write error with the session open
flash_firmware_from_sd_no_abort(m, F, stage, firmware_path) ==
    LET m0 == Say(m, "flash_call", stage, firmware_path, 0)
        begun == Say([m0 EXCEPT !.part = TornImage], "ota_begin", stage, firmware_path, 0)
        \* the loop ends when fread returns 0, at the end of the file or
        \* on a read error, with ret still ESP_OK
        bytes == IF Hit(F, stage, "flash_read") THEN ReadPrefix(m.sd[firmware_path].data)
                 ELSE m.sd[firmware_path].data
        written == Say([begun EXCEPT !.part = bytes], "ota_write", stage, firmware_path, bytes)
        ended == Say(written, "ota_end", stage, firmware_path, 0)
        activated == Say(ended, "set_boot", stage, firmware_path, 0)
        new_hash == calculate_partition_sha256(activated, TRUE, ~Hit(F, stage, "rehash_read"))
    IN  IF ~file_exists(m, firmware_path) \/ Hit(F, stage, "flash_open")
        THEN Ret(m0, ESP_ERR_NOT_FOUND)
        ELSE IF Hit(F, stage, "no_partition") THEN Ret(m0, ESP_FAIL)
        ELSE IF Hit(F, stage, "ota_begin") THEN Ret(m0, ESP_ERR_FLASH_OP_FAIL)
        ELSE IF Hit(F, stage, "flash_malloc")
        THEN Ret(Say(begun, "ota_abort", stage, firmware_path, 0), ESP_ERR_NO_MEM)
        ELSE IF Hit(F, stage, "ota_write") THEN Ret(begun, ESP_ERR_FLASH_OP_FAIL)
        ELSE IF Hit(F, stage, "ota_end")
        THEN Ret(Say(written, "ota_end_failed", stage, firmware_path, 0),
                 ESP_ERR_OTA_VALIDATE_FAILED)
        ELSE IF Hit(F, stage, "set_boot")
        THEN Ret(Say(ended, "set_boot_failed", stage, firmware_path, 0),
                 ESP_ERR_FLASH_OP_FAIL)
        ELSE IF new_hash.ret = ESP_OK
        THEN Ret(store_firmware_hash(activated, new_hash.hash, ~Hit(F, stage, "nvs_write")),
                 ESP_OK)
        ELSE Ret(activated, ESP_OK)

\* The write session on the running partition: esp_ota_begin erases it, the
\* chunk writes fill it, esp_ota_end closes the session.
flash_firmware_from_sd(m, F, stage, firmware_path) ==
    LET m0 == Say(m, "flash_call", stage, firmware_path, 0)
        begun == Say([m0 EXCEPT !.part = TornImage], "ota_begin", stage, firmware_path, 0)
        \* the loop ends when fread returns 0, at the end of the file or
        \* on a read error, with ret still ESP_OK
        bytes == IF Hit(F, stage, "flash_read") THEN ReadPrefix(m.sd[firmware_path].data)
                 ELSE m.sd[firmware_path].data
        written == Say([begun EXCEPT !.part = bytes], "ota_write", stage, firmware_path, bytes)
        ended == Say(written, "ota_end", stage, firmware_path, 0)
        activated == Say(ended, "set_boot", stage, firmware_path, 0)
        new_hash == calculate_partition_sha256(activated, TRUE, ~Hit(F, stage, "rehash_read"))
    IN  IF ~file_exists(m, firmware_path) \/ Hit(F, stage, "flash_open")
        THEN Ret(m0, ESP_ERR_NOT_FOUND)
        ELSE IF Hit(F, stage, "no_partition") THEN Ret(m0, ESP_FAIL)
        ELSE IF Hit(F, stage, "ota_begin") THEN Ret(m0, ESP_ERR_FLASH_OP_FAIL)
        ELSE IF Hit(F, stage, "flash_malloc")
        THEN Ret(Say(begun, "ota_abort", stage, firmware_path, 0), ESP_ERR_NO_MEM)
        ELSE IF Hit(F, stage, "ota_write")
        THEN Ret(Say(begun, "ota_abort", stage, firmware_path, 0), ESP_ERR_FLASH_OP_FAIL)
        ELSE IF Hit(F, stage, "ota_end")
        THEN Ret(Say(written, "ota_end_failed", stage, firmware_path, 0),
                 ESP_ERR_OTA_VALIDATE_FAILED)
        ELSE IF Hit(F, stage, "set_boot")
        THEN Ret(Say(ended, "set_boot_failed", stage, firmware_path, 0),
                 ESP_ERR_FLASH_OP_FAIL)
        ELSE IF new_hash.ret = ESP_OK
        THEN Ret(store_firmware_hash(activated, new_hash.hash, ~Hit(F, stage, "nvs_write")),
                 ESP_OK)
        ELSE Ret(activated, ESP_OK)

\* remove(path) on a file that exists; a failure is logged and goes on
remove_file(m, stage, path, ok) ==
    IF ~file_exists(m, path) THEN m
    ELSE IF ok THEN Say([m EXCEPT !.sd[path] = NoFile], "removed", stage, path, 0)
    ELSE Say(m, "remove_failed", stage, path, 0)

\* cleanup_recovery_files leaving the digest file of the update in place
cleanup_recovery_files_image_only(m, F, stage) ==
    Ret(remove_file(m, stage, SD_UPDATE_FIRMWARE_PATH, ~Hit(F, stage, "rm_fw")), ESP_OK)

\* cleanup_recovery_files removing the base image as well
cleanup_recovery_files_and_base(m, F, stage) ==
    Ret(remove_file(
            remove_file(remove_file(m, stage, SD_UPDATE_FIRMWARE_PATH, ~Hit(F, stage, "rm_fw")),
                        stage, SD_UPDATE_FIRMWARE_HASH_PATH, ~Hit(F, stage, "rm_hash")),
            stage, SD_BASE_FIRMWARE_PATH, TRUE),
        ESP_OK)

cleanup_recovery_files(m, F, stage) ==
    Ret(remove_file(remove_file(m, stage, SD_UPDATE_FIRMWARE_PATH, ~Hit(F, stage, "rm_fw")),
                    stage, SD_UPDATE_FIRMWARE_HASH_PATH, ~Hit(F, stage, "rm_hash")),
        ESP_OK)

SetState(m, stage, st) == Say(m, "state", stage, NoPath, st)

\* perform_full_sd_recovery putting the state back to IDLE before FAILED
perform_full_sd_recovery_back_to_idle(m, F, stage) ==
    LET s0 == Say(m, "run", stage, NoPath, 0)
        s1 == mount_sd_card(SetState(s0, stage, RECOVERY_STATE_SD_MOUNT), F, stage)
        s2 == find_recovery_firmware(s1, F, stage)
        s3 == verify_sd_firmware_integrity(
                  SetState(s2, stage, RECOVERY_STATE_FIRMWARE_VERIFY), F, stage, s2.fw, s2.hp)
        s4 == flash_firmware_from_sd(
                  SetState(s3, stage, RECOVERY_STATE_FLASHING), F, stage, s2.fw)
        s5 == cleanup_recovery_files(SetState(s4, stage, RECOVERY_STATE_CLEANUP), F, stage)
        Failed(s) == Ret(SetState(SetState(s, stage, RECOVERY_STATE_IDLE),
                                  stage, RECOVERY_STATE_FAILED), s.ret)
    IN  IF s1.ret # ESP_OK THEN Failed(s1)
        ELSE IF s2.ret # ESP_OK THEN Failed(s2)
        ELSE IF s3.ret # ESP_OK THEN Failed(s3)
        ELSE IF s4.ret # ESP_OK THEN Failed(s4)
        ELSE Ret(SetState(s5, stage, RECOVERY_STATE_SUCCESS), ESP_OK)

\* perform_full_sd_recovery returning a write error without writing FAILED
perform_full_sd_recovery_stuck_flashing(m, F, stage) ==
    LET s0 == Say(m, "run", stage, NoPath, 0)
        s1 == mount_sd_card(SetState(s0, stage, RECOVERY_STATE_SD_MOUNT), F, stage)
        s2 == find_recovery_firmware(s1, F, stage)
        s3 == verify_sd_firmware_integrity(
                  SetState(s2, stage, RECOVERY_STATE_FIRMWARE_VERIFY), F, stage, s2.fw, s2.hp)
        s4 == flash_firmware_from_sd(
                  SetState(s3, stage, RECOVERY_STATE_FLASHING), F, stage, s2.fw)
        s5 == cleanup_recovery_files(SetState(s4, stage, RECOVERY_STATE_CLEANUP), F, stage)
        Failed(s) == Ret(SetState(s, stage, RECOVERY_STATE_FAILED), s.ret)
    IN  IF s1.ret # ESP_OK THEN Failed(s1)
        ELSE IF s2.ret # ESP_OK THEN Failed(s2)
        ELSE IF s3.ret # ESP_OK THEN Failed(s3)
        ELSE IF s4.ret # ESP_OK THEN s4
        ELSE Ret(SetState(s5, stage, RECOVERY_STATE_SUCCESS), ESP_OK)

\* perform_full_sd_recovery going on to the write when verification failed
perform_full_sd_recovery_unverified(m, F, stage) ==
    LET s0 == Say(m, "run", stage, NoPath, 0)
        s1 == mount_sd_card(SetState(s0, stage, RECOVERY_STATE_SD_MOUNT), F, stage)
        s2 == find_recovery_firmware(s1, F, stage)
        s3 == verify_sd_firmware_integrity(
                  SetState(s2, stage, RECOVERY_STATE_FIRMWARE_VERIFY), F, stage, s2.fw, s2.hp)
        s4 == flash_firmware_from_sd(
                  SetState(s3, stage, RECOVERY_STATE_FLASHING), F, stage, s2.fw)
        s5 == cleanup_recovery_files(SetState(s4, stage, RECOVERY_STATE_CLEANUP), F, stage)
        Failed(s) == Ret(SetState(s, stage, RECOVERY_STATE_FAILED), s.ret)
    IN  IF s1.ret # ESP_OK THEN Failed(s1)
        ELSE IF s2.ret # ESP_OK THEN Failed(s2)
        ELSE IF s4.ret # ESP_OK THEN Failed(s4)
        ELSE Ret(SetState(s5, stage, RECOVERY_STATE_SUCCESS), ESP_OK)

\* perform_full_sd_recovery falling back to the base candidate when the
\* update candidate does not verify
perform_full_sd_recovery_with_fallback(m, F, stage) ==
    LET s0 == Say(m, "run", stage, NoPath, 0)
        s1 == mount_sd_card(SetState(s0, stage, RECOVERY_STATE_SD_MOUNT), F, stage)
        s2 == find_recovery_firmware(s1, F, stage)
        first == verify_sd_firmware_integrity(
                    SetState(s2, stage, RECOVERY_STATE_FIRMWARE_VERIFY), F, stage, s2.fw, s2.hp)
        retry == first.ret # ESP_OK /\ s2.fw = SD_UPDATE_FIRMWARE_PATH
        fw == IF retry THEN SD_BASE_FIRMWARE_PATH ELSE s2.fw
        s3 == IF retry
              THEN verify_sd_firmware_integrity(first, F, stage, SD_BASE_FIRMWARE_PATH,
                                                SD_BASE_FIRMWARE_HASH_PATH)
              ELSE first
        s4 == flash_firmware_from_sd(
                  SetState(s3, stage, RECOVERY_STATE_FLASHING), F, stage, fw)
        s5 == cleanup_recovery_files(SetState(s4, stage, RECOVERY_STATE_CLEANUP), F, stage)
        Failed(s) == Ret(SetState(s, stage, RECOVERY_STATE_FAILED), s.ret)
    IN  IF s1.ret # ESP_OK THEN Failed(s1)
        ELSE IF s2.ret # ESP_OK THEN Failed(s2)
        ELSE IF s3.ret # ESP_OK THEN Failed(s3)
        ELSE IF s4.ret # ESP_OK THEN Failed(s4)
        ELSE Ret(SetState(s5, stage, RECOVERY_STATE_SUCCESS), ESP_OK)

perform_full_sd_recovery(m, F, stage) ==
    LET s0 == Say(m, "run", stage, NoPath, 0)
        s1 == mount_sd_card(SetState(s0, stage, RECOVERY_STATE_SD_MOUNT), F, stage)
        s2 == find_recovery_firmware(s1, F, stage)
        s3 == verify_sd_firmware_integrity(
                  SetState(s2, stage, RECOVERY_STATE_FIRMWARE_VERIFY), F, stage, s2.fw, s2.hp)
        s4 == flash_firmware_from_sd(
                  SetState(s3, stage, RECOVERY_STATE_FLASHING), F, stage, s2.fw)
        s5 == cleanup_recovery_files(SetState(s4, stage, RECOVERY_STATE_CLEANUP), F, stage)
        Failed(s) == Ret(SetState(s, stage, RECOVERY_STATE_FAILED), s.ret)
    IN  IF s1.ret # ESP_OK THEN Failed(s1)
        ELSE IF s2.ret # ESP_OK THEN Failed(s2)
        ELSE IF s3.ret # ESP_OK THEN Failed(s3)
        ELSE IF s4.ret # ESP_OK THEN Failed(s4)
        ELSE Ret(SetState(s5, stage, RECOVERY_STATE_SUCCESS), ESP_OK)

\* get_file_size: st_size of the file, 0 when stat fails
get_file_size(m, path) == IF file_exists(m, path) THEN m.sd[path].len ELSE 0

validate_firmware_file(m, firmware_path) ==
    IF ~file_exists(m, firmware_path) THEN ESP_ERR_NOT_FOUND
    ELSE IF ~IS_VALID_FIRMWARE_SIZE(get_file_size(m, firmware_path))
    THEN ESP_ERR_INVALID_SIZE
    ELSE ESP_OK

(* ----------------------------- recovery_mode.c ------------------------ *)
\* enter_recovery_mode reporting success whatever the run returned
enter_recovery_mode_always_ok(m, reason, F) ==
    Ret(perform_full_sd_recovery(
            Say(m, "enter_recovery_mode", "manual", reason, 0), F, "manual"), ESP_OK)

enter_recovery_mode(m, reason, F) ==
    LET m1 == perform_full_sd_recovery(
                  Say(m, "enter_recovery_mode", "manual", reason, 0), F, "manual")
    IN  IF m1.ret = ESP_OK THEN Ret(m1, ESP_OK) ELSE Ret(m1, ESP_FAIL)

show_critical_error(m) == Say(m, "show_critical_error", "check", NoPath, 0)

(* ---------------------- bootloader_main.c, public --------------------- *)
esp_restart(m) == Ret(Say(m, "esp_restart", "check", NoPath, 0), NO_RETURN)

\* bootloader_check_and_decide starting recovery only on a digest mismatch
bootloader_check_and_decide_mismatch_only(m, F, now) ==
    LET force_recovery == should_force_recovery(m.stats)
        verified == verify_app_partition_integrity(Say(m, "integrity", "check", NoPath, 0), F)
        checked == Say(verified, "integrity_result", "check", verified.ret, 0)
        reason == IF force_recovery THEN BOOT_REASON_MULTIPLE_FAILURES
                  ELSE BOOT_REASON_CORRUPTION
        entry == Say([(IF force_recovery THEN m ELSE checked)
                         EXCEPT !.stats.last_boot_reason = reason],
                     "boot_reason", "check", reason, 0)
        auto == perform_full_sd_recovery(entry, F, "auto")
        auto_failed == record_recovery_event(auto, FALSE, now, F)
        manual == enter_recovery_mode(auto_failed, auto_failed.stats.last_boot_reason, F)
    IN  IF ~force_recovery /\ checked.ret # ESP_ERR_INVALID_CRC
        THEN Ret(reset_boot_counters(checked, F), ESP_OK)
        ELSE IF auto.ret = ESP_OK
        THEN esp_restart(record_recovery_event(auto, TRUE, now, F))
        ELSE IF manual.ret = ESP_OK
        THEN esp_restart(record_recovery_event(manual, TRUE, now, F))
        ELSE Ret(show_critical_error(record_recovery_event(manual, FALSE, now, F)), ESP_FAIL)

bootloader_check_and_decide(m, F, now) ==
    LET force_recovery == should_force_recovery(m.stats)
        verified == verify_app_partition_integrity(Say(m, "integrity", "check", NoPath, 0), F)
        checked == Say(verified, "integrity_result", "check", verified.ret, 0)
        reason == IF force_recovery THEN BOOT_REASON_MULTIPLE_FAILURES
                  ELSE BOOT_REASON_CORRUPTION
        entry == Say([(IF force_recovery THEN m ELSE checked)
                         EXCEPT !.stats.last_boot_reason = reason],
                     "boot_reason", "check", reason, 0)
        auto == perform_full_sd_recovery(entry, F, "auto")
        auto_failed == record_recovery_event(auto, FALSE, now, F)
        manual == enter_recovery_mode(auto_failed, auto_failed.stats.last_boot_reason, F)
    IN  IF ~force_recovery /\ checked.ret = ESP_OK
        THEN Ret(reset_boot_counters(checked, F), ESP_OK)
        ELSE IF auto.ret = ESP_OK
        THEN esp_restart(record_recovery_event(auto, TRUE, now, F))
        ELSE IF manual.ret = ESP_OK
        THEN esp_restart(record_recovery_event(manual, TRUE, now, F))
        ELSE Ret(show_critical_error(record_recovery_event(manual, FALSE, now, F)), ESP_FAIL)

bootloader_mark_boot_successful(m, F) ==
    IF ~m.initialized THEN m ELSE reset_boot_counters(m, F)

\* [ret, stats]
bootloader_get_stats(m) ==
    IF ~m.initialized
    THEN [ret |-> ESP_ERR_INVALID_ARG, stats |-> ZeroStats]
    ELSE [ret |-> ESP_OK, stats |-> m.stats]

bootloader_force_recovery(m, F, now) ==
    LET run == perform_full_sd_recovery(m, F, "auto")
        rec == record_recovery_event(run, run.ret = ESP_OK, now, F)
    IN  IF run.ret = ESP_OK THEN esp_restart(rec) ELSE Ret(rec, run.ret)

init_nvs_and_load_stats(m, F) ==
    LET opened == [m EXCEPT !.handle = TRUE]
    IN  IF Hit(F, "init", "nvs_flash_init") THEN Ret(m, ESP_ERR_NVS)
        ELSE IF Hit(F, "init", "nvs_open") THEN Ret(m, ESP_ERR_NVS)
        ELSE IF ~m.nvs_stats.present
        THEN Ret([opened EXCEPT !.stats = [ZeroStats EXCEPT !.first_boot = TRUE,
                                                            !.boot_attempts = 1,
                                                            !.total_boots = 1]], ESP_OK)
        ELSE IF Hit(F, "init", "nvs_get_blob") THEN Ret(opened, ESP_ERR_NVS)
        ELSE Ret([opened EXCEPT
                    !.stats = [m.nvs_stats.val EXCEPT
                                 !.boot_attempts = (@ + 1) % UINT8_MOD,
                                 !.total_boots = @ + 1]], ESP_OK)

integrity_checker_init(m, F) ==
    IF m.ic_init THEN Ret(m, ESP_OK)
    ELSE IF Hit(F, "init", "integrity_open") THEN Ret(m, ESP_ERR_NVS)
    ELSE Ret([m EXCEPT !.ic_init = TRUE], ESP_OK)

\* bootloader_init without its early return when already initialised
bootloader_init_unguarded(m, F) ==
    LET m1 == init_nvs_and_load_stats(m, F)
        m2 == integrity_checker_init(m1, F)
    IN  IF m1.ret # ESP_OK THEN m1
        ELSE IF m2.ret # ESP_OK THEN m2
        ELSE Ret([m2 EXCEPT !.initialized = TRUE], ESP_OK)

bootloader_init(m, F) ==
    LET m1 == init_nvs_and_load_stats(m, F)
        m2 == integrity_checker_init(m1, F)
    IN  IF m.initialized THEN Ret(m, ESP_OK)
        ELSE IF m1.ret # ESP_OK THEN m1
        ELSE IF m2.ret # ESP_OK THEN m2
        ELSE Ret([m2 EXCEPT !.initialized = TRUE], ESP_OK)

store_bootloader_stats(m, new_stats, F) ==
    IF ~m.initialized THEN Ret(m, ESP_ERR_INVALID_ARG)
    ELSE save_bootloader_stats([m EXCEPT !.stats = new_stats], F)

bootloader_simulate_corruption(m, F) ==
    store_firmware_hash(m, FakeHash, ~Hit(F, "integrity", "nvs_write"))

(* --------------------------- testing and debug ------------------------ *)
\* fopen(test_file, "w"), fprintf, fclose and remove of /sdcard/test_access.tmp
check_sd_accessibility(m, F, stage) ==
    LET m1 == mount_sd_card(m, F, stage)
    IN  IF m1.ret # ESP_OK THEN m1
        ELSE IF Hit(F, stage, "tmp_open") THEN Ret(m1, ESP_FAIL)
        ELSE Ret(Say(Say(m1, "tmp_written", stage, NoPath, 0),
                     "tmp_removed", stage, NoPath, 0), ESP_OK)

bootloader_run_self_test(m, F) ==
    LET test1 == IF ~m.initialized THEN ESP_FAIL ELSE ESP_OK
        test2 == IF bootloader_get_stats(m).ret # ESP_OK THEN ESP_FAIL ELSE test1
        m3 == verify_app_partition_integrity(m, F)
        m4 == check_sd_accessibility(m3, F, "selftest")
    IN  Ret(m4, test2)

(* -------------------------------- update.c ---------------------------- *)
\* the file fopen(local_path, "wb") leaves when nothing was written to it
EmptyFile == [exists |-> TRUE, len |-> 0, data |-> TornImage]

\* the server delivers image img
update_download_firmware(m, F, local_path, img) ==
    LET opened == [m EXCEPT !.sd[local_path] = EmptyFile]
        done == Say([m EXCEPT !.sd[local_path] = ImageFile(img)],
                    "downloaded", "download", local_path, FileBytes(img))
    IN  IF ~m.card \/ Hit(F, "download", "mount") THEN Ret(m, ESP_FAIL)
        ELSE IF Hit(F, "download", "http_init") THEN Ret(m, ESP_FAIL)
        ELSE IF Hit(F, "download", "http_open") THEN Ret(m, ESP_FAIL)
        ELSE IF Hit(F, "download", "fopen") THEN Ret(m, ESP_FAIL)
        ELSE IF Hit(F, "download", "fwrite") THEN Ret(opened, ESP_FAIL)
        ELSE IF Hit(F, "download", "no_data") THEN Ret(opened, ESP_FAIL)
        ELSE Ret(done, ESP_OK)

\* stage is "flash1" for the downloaded image and "flash2" for the fallback
flash_from_file(m, F, stage, firmware_path) ==
    LET m0 == Say(m, "flash_call", stage, firmware_path, 0)
        begun == Say([m0 EXCEPT !.part = TornImage], "ota_begin", stage, firmware_path, 0)
        bytes == IF Hit(F, stage, "fread") THEN ReadPrefix(m.sd[firmware_path].data)
                 ELSE m.sd[firmware_path].data
        written == Say([begun EXCEPT !.part = bytes], "ota_write", stage, firmware_path, bytes)
        ended == Say(written, "ota_end", stage, firmware_path, 0)
        activated == Say(ended, "set_boot", stage, firmware_path, 0)
    IN  IF ~file_exists(m, firmware_path) \/ Hit(F, stage, "fopen") THEN Ret(m0, ESP_FAIL)
        ELSE IF Hit(F, stage, "no_partition") THEN Ret(m0, ESP_FAIL)
        ELSE IF Hit(F, stage, "ota_begin") THEN Ret(m0, ESP_ERR_FLASH_OP_FAIL)
        ELSE IF Hit(F, stage, "ota_write")
        THEN Ret(Say(begun, "ota_end", stage, firmware_path, 0), ESP_ERR_FLASH_OP_FAIL)
        ELSE IF Hit(F, stage, "ota_end")
        THEN Ret(Say(written, "ota_end_failed", stage, firmware_path, 0),
                 ESP_ERR_OTA_VALIDATE_FAILED)
        ELSE IF Hit(F, stage, "set_boot")
        THEN Ret(Say(ended, "set_boot_failed", stage, firmware_path, 0),
                 ESP_ERR_FLASH_OP_FAIL)
        ELSE Ret(activated, ESP_OK)

update_generate_integrity_hash(m, F) ==
    LET calc == calculate_partition_sha256(m, ~Hit(F, "hashgen", "malloc"),
                                           ~Hit(F, "hashgen", "part_read"))
    IN  IF Hit(F, "hashgen", "no_partition") THEN Ret(m, ESP_FAIL)
        ELSE IF calc.ret # ESP_OK THEN Ret(m, calc.ret)
        ELSE store_firmware_hash(m, calc.hash, ~Hit(F, "hashgen", "nvs_write"))

update_perform(m, F, firmware_path, fallback_path, img) ==
    LET dl == update_download_firmware(m, F, firmware_path, img)
        first == flash_from_file(dl, F, "flash1", firmware_path)
        second == flash_from_file(first, F, "flash2", fallback_path)
        flashed == IF first.ret = ESP_OK THEN first ELSE second
        hashed == update_generate_integrity_hash([flashed EXCEPT !.pending = FALSE], F)
    IN  IF ~m.pending THEN Ret(m, ESP_ERR_INVALID_STATE)
        ELSE IF dl.ret # ESP_OK THEN dl
        ELSE IF first.ret # ESP_OK /\ second.ret # ESP_OK THEN Ret(second, ESP_FAIL)
        ELSE Ret(Say(hashed, "esp_restart", "update", NoPath, 0), NO_RETURN)

(* ------------------------------- state -------------------------------- *)
VARIABLES
    bootloader_stats,              \* static of bootloader_main.c
    bootloader_nvs_handle,         \* the handle is open
    bootloader_initialized,
    integrity_checker_initialized,
    sd_mounted,
    is_update_pending,             \* static of update.c
    nvs_stats,                     \* persisted "stats" blob
    nvs_app_hash,                  \* persisted "app_hash" blob
    app_partition,                 \* content of the running partition
    partition_size,
    sd_files,
    sd_card,                       \* a card is in the slot
    power,                         \* "off" or "on"
    last_op,                       \* the operation that ran last
    last_ret,                      \* what it returned
    call_log,                      \* what it did, in order
    call_pre,                      \* the state it started from
    firmware_info,                 \* the firmware_info_t it filled
    found_paths,                   \* the firmware_path and hash_path found last
    stats_out,                     \* the copy bootloader_get_stats made
    boot_history,                  \* the calls that returned since reset
    hash_input,                    \* the digest given to write_hex_hash_file
    hex_file,                      \* the characters of a digest file
    hash_output                    \* the digest read_hex_hash_file decoded

volatile == <<bootloader_stats, bootloader_nvs_handle, bootloader_initialized,
              integrity_checker_initialized, sd_mounted, is_update_pending>>
persistent == <<nvs_stats, nvs_app_hash, app_partition, partition_size, sd_files, sd_card>>
observed == <<last_op, last_ret, call_log, call_pre, firmware_info, found_paths, stats_out,
              boot_history>>
hexio == <<hash_input, hex_file, hash_output>>
vars == <<volatile, persistent, power, observed, hexio>>

\* the machine record of the current state, at the start of a call
Machine ==
    [stats |-> bootloader_stats, handle |-> bootloader_nvs_handle,
     initialized |-> bootloader_initialized, ic_init |-> integrity_checker_initialized,
     mounted |-> sd_mounted, pending |-> is_update_pending,
     nvs_stats |-> nvs_stats, app_hash |-> nvs_app_hash,
     part |-> app_partition, part_size |-> partition_size, sd |-> sd_files,
     card |-> sd_card, log |-> <<>>, saves |-> 0, ret |-> ESP_OK,
     info |-> ZeroInfo, fw |-> NoPath, hp |-> NoPath]

NoPaths == [firmware_path |-> NoPath, hash_path |-> NoPath]

Snapshot ==
    [stats |-> bootloader_stats, nvs_stats |-> nvs_stats, app_hash |-> nvs_app_hash,
     part |-> app_partition, sd |-> sd_files, initialized |-> bootloader_initialized,
     ic_init |-> integrity_checker_initialized, power |-> power,
     handle |-> bootloader_nvs_handle, mounted |-> sd_mounted,
     part_size |-> partition_size, card |-> sd_card]

NoSnapshot ==
    [stats |-> ZeroStats, nvs_stats |-> NoBlob, app_hash |-> NoHash,
     part |-> 1, sd |-> [p \in SdPaths |-> NoFile], initialized |-> FALSE,
     ic_init |-> FALSE, power |-> "off", handle |-> FALSE, mounted |-> FALSE,
     part_size |-> 0, card |-> FALSE]

\* the call `op` took the machine to m and returned r
Commit(op, m, r) ==
    /\ bootloader_stats' = m.stats
    /\ bootloader_nvs_handle' = m.handle
    /\ bootloader_initialized' = m.initialized
    /\ integrity_checker_initialized' = m.ic_init
    /\ sd_mounted' = m.mounted
    /\ is_update_pending' = m.pending
    /\ nvs_stats' = m.nvs_stats
    /\ nvs_app_hash' = m.app_hash
    /\ app_partition' = m.part
    /\ sd_files' = m.sd
    /\ UNCHANGED <<partition_size, sd_card>>
    /\ power' = IF r = NO_RETURN THEN "off" ELSE "on"
    /\ last_op' = op
    /\ last_ret' = r
    /\ call_log' = m.log
    /\ call_pre' = Snapshot
    /\ firmware_info' = m.info
    /\ found_paths' = [firmware_path |-> m.fw, hash_path |-> m.hp]
    /\ boot_history' = Append(boot_history, [op |-> op, ret |-> r])
    /\ UNCHANGED hexio

(* ------------------------ devices and their state --------------------- *)
EmptyCard == [p \in SdPaths |-> NoFile]
BaseCard(img, d) ==
    [EmptyCard EXCEPT ![SD_BASE_FIRMWARE_PATH] = ImageFile(img),
                      ![SD_BASE_FIRMWARE_HASH_PATH] = d]
BothCard(upd, ud, img, d) ==
    [BaseCard(img, d) EXCEPT ![SD_UPDATE_FIRMWARE_PATH] = ImageFile(upd),
                             ![SD_UPDATE_FIRMWARE_HASH_PATH] = ud]

\* what can be in the card slot: nothing, or a card with one of these layouts
SdSlots ==
    {[card |-> FALSE, files |-> EmptyCard],
     [card |-> TRUE, files |-> EmptyCard],
     [card |-> TRUE, files |-> BaseCard(1, DigestFile(SHA256(FileBytes(1))))],
     [card |-> TRUE, files |-> BaseCard(1, DigestFile(SHA256(FileBytes(NumImages)) + 1))],
     [card |-> TRUE, files |-> BothCard(NumImages, DigestFile(SHA256(FileBytes(NumImages))),
                                        1, DigestFile(SHA256(FileBytes(1))))]}

\* a partition of an accepted size and one that is too large
PartitionSizes == {FIRMWARE_MIN_SIZE, FIRMWARE_MAX_SIZE + FIRMWARE_MIN_SIZE}

\* esp_log_timestamp(): milliseconds since reset, at the time of a call
esp_log_timestamp == 1

\* persisted values of boot_attempts and of recovery_attempts
StoredBootAttempts == {0, MAX_BOOT_ATTEMPTS - 1, UINT8_MOD - 1}
StoredRecoveryAttempts == {0, MAX_RECOVERY_ATTEMPTS - 1, MAX_RECOVERY_ATTEMPTS, UINT8_MOD - 2}

\* a "stats" blob as earlier boots leave it: first_boot is never cleared
\* (bootloader_main.c:78), every recovery event is counted and leaves its
\* reason and timestamp (bootloader_main.c:147-163)
StoredStats(b, r) ==
    [boot_attempts |-> b, recovery_attempts |-> r, total_boots |-> b + 1,
     total_recoveries |-> r,
     last_boot_reason |-> IF r > 0 THEN BOOT_REASON_RECOVERY ELSE BOOT_REASON_NORMAL,
     last_recovery_timestamp |-> IF r > 0 THEN esp_log_timestamp ELSE 0, first_boot |-> TRUE]

\* each value of one counter with the other at 0, and the pairs around the
\* two thresholds
StoredCounterPairs ==
    {p \in StoredBootAttempts \X StoredRecoveryAttempts :
        \/ p[1] = 0
        \/ p[2] = 0
        \/ (p[1] < MAX_BOOT_ATTEMPTS /\ p[2] <= MAX_RECOVERY_ATTEMPTS)}

StoredBlobs ==
    {NoBlob} \cup {Blob(StoredStats(p[1], p[2])) : p \in StoredCounterPairs}

\* persisted baselines: none, the digest of the partition, the digest of
\* another partition content
StoredHashes ==
    {NoHash, SHA256(PartitionBytes(1)), SHA256(PartitionBytes(NumImages))}

\* counter values store_bootloader_stats is called with
StoredCounters == {UINT8_MOD - 1}

\* the statics after reset, on a device with the given persisted state
PoweredOn(blob, hash, size, slot) ==
    [stats |-> ZeroStats, handle |-> FALSE, initialized |-> FALSE, ic_init |-> FALSE,
     mounted |-> FALSE, pending |-> FALSE, nvs_stats |-> blob, app_hash |-> hash, part |-> 1,
     part_size |-> size, sd |-> slot.files, card |-> slot.card, log |-> <<>>,
     saves |-> 0, ret |-> ESP_OK, info |-> ZeroInfo, fw |-> NoPath, hp |-> NoPath]

\* The application after reset: it has not called bootloader_init yet, or it
\* has, with any outcome.
Init ==
    \E blob \in StoredBlobs, hash \in StoredHashes, size \in PartitionSizes,
       slot \in SdSlots :
       \* a partition of a rejected size is drawn with the counters at rest
       /\ ~IS_VALID_FIRMWARE_SIZE(size) => blob \in {NoBlob, Blob(StoredStats(0, 0))}
       /\ \E m \in {PoweredOn(blob, hash, size, slot)}
                   \cup {bootloader_init(PoweredOn(blob, hash, size, slot), F) :
                           F \in FaultSets({"init"})} :
             /\ bootloader_stats = m.stats
             /\ bootloader_nvs_handle = m.handle
             /\ bootloader_initialized = m.initialized
             /\ integrity_checker_initialized = m.ic_init
             /\ sd_mounted = m.mounted
             /\ is_update_pending = m.pending
             /\ nvs_stats = m.nvs_stats
             /\ nvs_app_hash = m.app_hash
             /\ app_partition = m.part
             /\ partition_size = m.part_size
             /\ sd_files = m.sd
             /\ sd_card = m.card
             /\ power = "on"
             /\ last_op = "none"
             /\ last_ret = ESP_OK
             /\ call_log = <<>>
             /\ call_pre = NoSnapshot
             /\ firmware_info = ZeroInfo
             /\ found_paths = NoPaths
             /\ stats_out = ZeroStats
             /\ boot_history = <<>>
             /\ hash_input = <<>>
             /\ hex_file = <<>>
             /\ hash_output = <<>>

(* ------------------------------ actions ------------------------------- *)
\* the application is running and has made no call yet
Running == power = "on" /\ last_op = "none"

BootloaderInit ==
    /\ Running
    /\ \E F \in FaultSets({"init"}) :
          \E m \in {bootloader_init(Machine, F)} :
              Commit("bootloader_init", m, m.ret)
    /\ UNCHANGED stats_out

CheckAndDecide ==
    /\ Running
    /\ \E F \in FaultSets({"integrity", "auto", "manual", "stats"}) :
          \E m \in {bootloader_check_and_decide(Machine, F, esp_log_timestamp)} :
              Commit("bootloader_check_and_decide", m, m.ret)
    /\ UNCHANGED stats_out

MarkBootSuccessful ==
    /\ Running
    /\ \E F \in FaultSets({"stats"}) :
          \E m \in {bootloader_mark_boot_successful(Machine, F)} :
              Commit("bootloader_mark_boot_successful", m, ESP_OK)
    /\ UNCHANGED stats_out

GetStats ==
    /\ Running
    /\ \E r \in {bootloader_get_stats(Machine)} :
          /\ Commit("bootloader_get_stats", Machine, r.ret)
          /\ stats_out' = r.stats

ForceRecovery ==
    /\ Running
    /\ \E F \in FaultSets({"auto", "stats"}) :
          \E m \in {bootloader_force_recovery(Machine, F, esp_log_timestamp)} :
              Commit("bootloader_force_recovery", m, m.ret)
    /\ UNCHANGED stats_out

StoreStats ==
    /\ Running
    /\ \E F \in FaultSets({"stats"}), b \in StoredCounters, r \in StoredCounters :
          \E m \in {store_bootloader_stats(
                       Machine, [bootloader_stats EXCEPT !.boot_attempts = b,
                                                         !.recovery_attempts = r], F)} :
              Commit("store_bootloader_stats", m, m.ret)
    /\ UNCHANGED stats_out

SimulateCorruption ==
    /\ Running
    /\ \E F \in FaultSets({"integrity"}) :
          \E m \in {bootloader_simulate_corruption(Machine, F)} :
              Commit("bootloader_simulate_corruption", m, m.ret)
    /\ UNCHANGED stats_out

\* verify_app_partition_integrity called on its own (integrity_checker.h)
VerifyAppPartitionIntegrity ==
    /\ Running
    /\ \E F \in FaultSets({"integrity"}) :
          \E m \in {verify_app_partition_integrity(Machine, F)} :
              Commit("verify_app_partition_integrity", m, m.ret)
    /\ UNCHANGED stats_out

\* find_recovery_firmware called on its own (sd_recovery.h)
FindRecoveryFirmware ==
    /\ Running
    /\ \E F \in FaultSets({"find"}) :
          \E m \in {find_recovery_firmware(Machine, F, "find")} :
              Commit("find_recovery_firmware", m, m.ret)
    /\ UNCHANGED stats_out

RunSelfTest ==
    /\ Running
    /\ \E F \in FaultSets({"integrity", "selftest"}) :
          \E m \in {bootloader_run_self_test(Machine, F)} :
              Commit("bootloader_run_self_test", m, m.ret)
    /\ UNCHANGED stats_out

Next ==
    \/ BootloaderInit
    \/ RunSelfTest
    \/ FindRecoveryFirmware
    \/ VerifyAppPartitionIntegrity
    \/ CheckAndDecide
    \/ MarkBootSuccessful
    \/ GetStats
    \/ ForceRecovery
    \/ StoreStats
    \/ SimulateCorruption

Spec == Init /\ [][Next]_vars

(* --------------------------- an OTA update ---------------------------- *)
\* the card slot when UpdateFirmware runs: no card, a card without the
\* backup image, a card with it
UpdateSlots ==
    {[card |-> FALSE, files |-> EmptyCard],
     [card |-> TRUE, files |-> EmptyCard],
     [card |-> TRUE, files |-> [EmptyCard EXCEPT ![UPDATE_FALLBACK_PATH] = ImageFile(1)]]}

\* The application after BOOTLOADER_INIT_AND_CHECK and update_init:
\* update_check found a newer version on the server, or did not.
UpdateInit ==
    \E slot \in UpdateSlots, hash \in StoredHashes, pending \in BOOLEAN :
       \E m \in {bootloader_init(PoweredOn(NoBlob, hash, FIRMWARE_MIN_SIZE, slot), {})} :
          /\ bootloader_stats = m.stats
          /\ bootloader_nvs_handle = m.handle
          /\ bootloader_initialized = m.initialized
          /\ integrity_checker_initialized = m.ic_init
          /\ sd_mounted = m.mounted
          /\ is_update_pending = pending
          /\ nvs_stats = m.nvs_stats
          /\ nvs_app_hash = m.app_hash
          /\ app_partition = m.part
          /\ partition_size = m.part_size
          /\ sd_files = m.sd
          /\ sd_card = m.card
          /\ power = "on"
          /\ last_op = "none"
          /\ last_ret = ESP_OK
          /\ call_log = <<>>
          /\ call_pre = NoSnapshot
          /\ firmware_info = ZeroInfo
          /\ found_paths = NoPaths
          /\ stats_out = ZeroStats
          /\ boot_history = <<>>
          /\ hash_input = <<>>
          /\ hex_file = <<>>
          /\ hash_output = <<>>

\* update_perform("/sdcard/update.bin", "/sdcard/firmware_backup.bin")
UpdatePerform ==
    /\ Running
    /\ \E F \in FaultSets({"download", "flash1", "flash2", "hashgen"}),
          img \in 1..NumImages :
          \E m \in {update_perform(Machine, F, UPDATE_DOWNLOAD_PATH,
                                   UPDATE_FALLBACK_PATH, img)} :
              Commit("update_perform", m, m.ret)
    /\ UNCHANGED stats_out

\* update_generate_integrity_hash called on its own (main.c:68)
UpdateGenerateIntegrityHash ==
    /\ Running
    /\ \E F \in FaultSets({"hashgen"}) :
          \E m \in {update_generate_integrity_hash(Machine, F)} :
              Commit("update_generate_integrity_hash", m, m.ret)
    /\ UNCHANGED stats_out

UpdateNext ==
    \/ UpdatePerform
    \/ UpdateGenerateIntegrityHash

UpdateSpec == UpdateInit /\ [][UpdateNext]_vars

(* ----------------- a device whose application never confirms ---------- *)
\* A new device is followed over its boots.  In every boot the application
\* runs BOOTLOADER_INIT_AND_CHECK (bootloader_main.h) and then fails before
\* it reaches bootloader_mark_boot_successful (core/main.c:135); the platform
\* itself does not fail.
FreshDevice ==
    \E size \in PartitionSizes, slot \in SdSlots :
       /\ bootloader_stats = ZeroStats
       /\ bootloader_nvs_handle = FALSE
       /\ bootloader_initialized = FALSE
       /\ integrity_checker_initialized = FALSE
       /\ sd_mounted = FALSE
       /\ is_update_pending = FALSE
       /\ nvs_stats = NoBlob
       /\ nvs_app_hash = NoHash
       /\ app_partition = 1
       /\ partition_size = size
       /\ sd_files = slot.files
       /\ sd_card = slot.card
       /\ power = "off"
       /\ last_op = "none"
       /\ last_ret = ESP_OK
       /\ call_log = <<>>
       /\ call_pre = NoSnapshot
       /\ firmware_info = ZeroInfo
       /\ found_paths = NoPaths
       /\ stats_out = ZeroStats
       /\ boot_history = <<>>
       /\ hash_input = <<>>
       /\ hex_file = <<>>
       /\ hash_output = <<>>

\* power-up, esp_restart, or the reset that follows abort() or a crash of the
\* application: the statics are zero-initialised again
Reset ==
    /\ power = "off" \/ last_op = "bootloader_check_and_decide"
    /\ nvs_stats.present => nvs_stats.val.total_boots < MaxBoots
    /\ bootloader_stats' = ZeroStats
    /\ bootloader_nvs_handle' = FALSE
    /\ bootloader_initialized' = FALSE
    /\ integrity_checker_initialized' = FALSE
    /\ sd_mounted' = FALSE
    /\ is_update_pending' = FALSE
    /\ power' = "on"
    /\ last_op' = "none"
    /\ last_ret' = ESP_OK
    /\ call_log' = <<>>
    /\ call_pre' = NoSnapshot
    /\ firmware_info' = ZeroInfo
    /\ found_paths' = NoPaths
    /\ stats_out' = ZeroStats
    /\ boot_history' = <<>>
    /\ UNCHANGED <<persistent, hexio>>

\* ESP_ERROR_CHECK(bootloader_init())
StartupInit ==
    /\ Running
    /\ \E m \in {bootloader_init(Machine, {})} : Commit("bootloader_init", m, m.ret)
    /\ UNCHANGED stats_out

\* bootloader_check_and_decide() of BOOTLOADER_INIT_AND_CHECK
StartupCheck ==
    /\ power = "on"
    /\ last_op = "bootloader_init"
    /\ last_ret = ESP_OK
    /\ \E m \in {bootloader_check_and_decide(Machine, {}, esp_log_timestamp)} :
          Commit("bootloader_check_and_decide", m, m.ret)
    /\ UNCHANGED stats_out

CrashLoopNext ==
    \/ Reset
    \/ StartupInit
    \/ StartupCheck

CrashLoopSpec == FreshDevice /\ [][CrashLoopNext]_vars

(* ------------------------------ app_main ------------------------------ *)
\* BOOTLOADER_IS_FIRST_BOOT() evaluated before BOOTLOADER_INIT_AND_CHECK()
AppIsFirstBoot_at_entry ==
    /\ Running
    /\ \E r \in {bootloader_get_stats(Machine)} :
          /\ Commit("bootloader_get_stats", Machine, r.ret)
          /\ stats_out' = r.stats

\* BOOTLOADER_IS_FIRST_BOOT() of main.c:74, reached when
\* BOOTLOADER_INIT_AND_CHECK() did not abort
AppIsFirstBoot ==
    /\ power = "on"
    /\ last_op = "bootloader_check_and_decide"
    /\ last_ret = ESP_OK
    /\ \E r \in {bootloader_get_stats(Machine)} :
          /\ Commit("bootloader_get_stats", Machine, r.ret)
          /\ stats_out' = r.stats

\* bootloader_mark_boot_successful() of main.c:135
AppMarkBootSuccessful ==
    /\ power = "on"
    /\ last_op = "bootloader_get_stats"
    /\ \E m \in {bootloader_mark_boot_successful(Machine, {})} :
          Commit("bootloader_mark_boot_successful", m, ESP_OK)
    /\ UNCHANGED stats_out

\* the device is switched off and on while the application runs
PowerCycle ==
    /\ last_op = "bootloader_mark_boot_successful"
    /\ nvs_stats.present => nvs_stats.val.total_boots < MaxBoots
    /\ bootloader_stats' = ZeroStats
    /\ bootloader_nvs_handle' = FALSE
    /\ bootloader_initialized' = FALSE
    /\ integrity_checker_initialized' = FALSE
    /\ sd_mounted' = FALSE
    /\ is_update_pending' = FALSE
    /\ power' = "on"
    /\ last_op' = "none"
    /\ last_ret' = ESP_OK
    /\ call_log' = <<>>
    /\ call_pre' = NoSnapshot
    /\ firmware_info' = ZeroInfo
    /\ found_paths' = NoPaths
    /\ stats_out' = ZeroStats
    /\ boot_history' = <<>>
    /\ UNCHANGED <<persistent, hexio>>

AppMainNext ==
    \/ Reset
    \/ StartupInit
    \/ StartupCheck
    \/ AppIsFirstBoot
    \/ AppMarkBootSuccessful
    \/ PowerCycle

AppMainSpec == FreshDevice /\ [][AppMainNext]_vars

(* ------------------------ candidates of any size ---------------------- *)
\* Discovery and recovery on cards with every layout of the two candidate
\* pairs, and with candidate images whose size is at or next to the limits
\* of IS_VALID_FIRMWARE_SIZE.
CandidateSizes ==
    {FIRMWARE_MIN_SIZE - 1, FIRMWARE_MIN_SIZE, FIRMWARE_MAX_SIZE, FIRMWARE_MAX_SIZE + 1}

SizedImage(img, size) == [exists |-> TRUE, len |-> size, data |-> FileBytes(img)]

CandidateCards ==
    {[EmptyCard EXCEPT ![SD_BASE_FIRMWARE_PATH] = SizedImage(img, size),
                       ![SD_BASE_FIRMWARE_HASH_PATH] = DigestFile(SHA256(FileBytes(img)))]
        : img \in 1..NumImages, size \in CandidateSizes}
    \cup
    {[EmptyCard EXCEPT ![SD_UPDATE_FIRMWARE_PATH] = SizedImage(img, size),
                       ![SD_UPDATE_FIRMWARE_HASH_PATH] = DigestFile(SHA256(FileBytes(img)))]
        : img \in 1..NumImages, size \in CandidateSizes}
    \cup
    {EmptyCard,
     BaseCard(1, NoFile),
     BothCard(NumImages, NoFile, 1, DigestFile(SHA256(FileBytes(1)))),
     BothCard(NumImages, DigestFile(SHA256(FileBytes(NumImages))), 1, NoFile),
     BothCard(NumImages, DigestFile(SHA256(FileBytes(NumImages))),
              1, DigestFile(SHA256(FileBytes(1)))),
     BothCard(NumImages, DigestFile(SHA256(FileBytes(NumImages)) + 1),
              1, DigestFile(SHA256(FileBytes(1)))),
     BothCard(NumImages, DigestFile(SHA256(FileBytes(NumImages)) + 1), 1, NoFile)}

CandidateInit ==
    \E files \in CandidateCards, hash \in StoredHashes :
       \E m \in {bootloader_init(
                    PoweredOn(NoBlob, hash, FIRMWARE_MIN_SIZE,
                              [card |-> TRUE, files |-> files]), {})} :
          /\ bootloader_stats = m.stats
          /\ bootloader_nvs_handle = m.handle
          /\ bootloader_initialized = m.initialized
          /\ integrity_checker_initialized = m.ic_init
          /\ sd_mounted = m.mounted
          /\ is_update_pending = m.pending
          /\ nvs_stats = m.nvs_stats
          /\ nvs_app_hash = m.app_hash
          /\ app_partition = m.part
          /\ partition_size = m.part_size
          /\ sd_files = m.sd
          /\ sd_card = m.card
          /\ power = "on"
          /\ last_op = "none"
          /\ last_ret = ESP_OK
          /\ call_log = <<>>
          /\ call_pre = NoSnapshot
          /\ firmware_info = ZeroInfo
          /\ found_paths = NoPaths
          /\ stats_out = ZeroStats
          /\ boot_history = <<>>
          /\ hash_input = <<>>
          /\ hex_file = <<>>
          /\ hash_output = <<>>

\* validate_firmware_file called on one of the two image paths
ValidateFirmwareFile ==
    /\ Running
    /\ \E path \in {SD_BASE_FIRMWARE_PATH, SD_UPDATE_FIRMWARE_PATH} :
          Commit("validate_firmware_file",
                 [Machine EXCEPT !.fw = path], validate_firmware_file(Machine, path))
    /\ UNCHANGED stats_out

CandidateNext ==
    \/ CheckAndDecide
    \/ ForceRecovery
    \/ FindRecoveryFirmware
    \/ ValidateFirmwareFile

CandidateSpec == CandidateInit /\ [][CandidateNext]_vars

(* ------------------------ the digest-file codec ----------------------- *)
\* The hex conversions and the two digest-file helpers, applied to drawn
\* digests and drawn file contents.
Digest(seed) == [i \in 1..HASH_LEN |-> (seed + 17 * (i - 1)) % UINT8_MOD]
Digests == {Digest((85 * k) % UINT8_MOD) : k \in 0..NumDigests}

\* NUL, newline, space, the neighbours of the digit ranges, and the ends of
\* the upper-case range
OddChars == {0, 10, 32, 47, 58, 64, 65, 70, 71, 96, 103}

\* " a.bin" and a newline, as sha256sum prints after the digest
FileNameTail == <<32, 97, 46, 98, 105, 110, 10>>

\* contents a digest file can have: the 64 characters of a digest, the same
\* cut short or followed by more, or with one character replaced
FileTexts ==
    UNION {LET h == hash_to_hex_string(d)
           IN  {h, <<>>, SubSeq(h, 1, 63), h \o <<10>>, h \o FileNameTail}
                 \cup {[h EXCEPT ![p] = c] : p \in DOMAIN h, c \in OddChars}
           : d \in Digests}

\* how many of the 64 characters a failing fwrite delivers
ShortWrites == {0, 63}

HexInit ==
    /\ bootloader_stats = ZeroStats
    /\ bootloader_nvs_handle = FALSE
    /\ bootloader_initialized = FALSE
    /\ integrity_checker_initialized = FALSE
    /\ sd_mounted = FALSE
    /\ is_update_pending = FALSE
    /\ nvs_stats = NoBlob
    /\ nvs_app_hash = NoHash
    /\ app_partition = 1
    /\ partition_size = FIRMWARE_MIN_SIZE
    /\ sd_files = EmptyCard
    /\ sd_card = TRUE
    /\ power = "on"
    /\ last_op = "none"
    /\ last_ret = ESP_OK
    /\ call_log = <<>>
    /\ call_pre = NoSnapshot
    /\ firmware_info = ZeroInfo
    /\ found_paths = NoPaths
    /\ stats_out = ZeroStats
    /\ boot_history = <<>>
    /\ hash_input \in Digests
    /\ hex_file \in FileTexts
    /\ hash_output = <<>>

HexDone(op, r) ==
    /\ last_op' = op
    /\ last_ret' = r
    /\ call_log' = Append(call_log, Event(op, "hex", NoPath, 0))
    /\ UNCHANGED <<volatile, persistent, power, call_pre, firmware_info, found_paths,
                   stats_out, boot_history, hash_input>>

WriteHexHashFile ==
    /\ last_op = "none"
    /\ \E open_ok \in BOOLEAN, written \in ShortWrites \cup {64} :
          \E w \in {write_hex_hash_file(hex_file, hash_input, open_ok, written)} :
              /\ hex_file' = w.content
              /\ HexDone(IF w.ret = ESP_OK THEN "write_hex_hash_file" ELSE "write_failed",
                         w.ret)
    /\ UNCHANGED hash_output

ReadHexHashFile ==
    /\ last_op \in {"none", "write_hex_hash_file", "write_failed"}
    /\ \E open_ok \in BOOLEAN :
          \E r \in {read_hex_hash_text(hex_file, open_ok)} :
              /\ hash_output' = IF r.ret = ESP_OK THEN r.hash ELSE hash_output
              /\ HexDone("read_hex_hash_file", r.ret)
    /\ UNCHANGED hex_file

\* hex_string_to_hash on the file's characters taken as a C string
HexStringToHash ==
    /\ last_op = "none"
    /\ \A i \in DOMAIN hex_file : hex_file[i] # 0
    /\ \E r \in {hex_string_to_hash(hex_file)} :
          /\ hash_output' = IF r.ret = ESP_OK THEN r.hash ELSE hash_output
          /\ HexDone("hex_string_to_hash", r.ret)
    /\ UNCHANGED hex_file

HexNext ==
    \/ WriteHexHashFile
    \/ ReadHexHashFile
    \/ HexStringToHash

HexSpec == HexInit /\ [][HexNext]_vars

(* ------------------------ reading the last call ----------------------- *)
\* the positions of the call's log that hold the given event of the given stage
EventsAt(ev, stage) ==
    {i \in DOMAIN call_log : call_log[i].ev = ev /\ call_log[i].stage = stage}

Happened(ev, stage) == EventsAt(ev, stage) # {}

\* the recovery run of the given stage ended in the given recovery_state_t
RunEnded(stage, st) ==
    \E i \in EventsAt("state", stage) : call_log[i].val = st

\* the positions at which a recovery run was started
RunStarts == EventsAt("run", "auto") \cup EventsAt("run", "manual")

\* the write session on the application partition was opened
PartitionWritten == Happened("ota_begin", "auto") \/ Happened("ota_begin", "manual")

Decided == last_op = "bootloader_check_and_decide"

(* ------------------------------- claims ------------------------------- *)
\* C1: whenever bootloader_check_and_decide is called with boot_attempts >= 3
\* or recovery_attempts >= 3, the call runs perform_full_sd_recovery and does
\* not return ESP_OK, whatever the state of the running image.
C1_ForcedRecoveryThreshold ==
    (Decided /\ (\/ call_pre.stats.boot_attempts >= 3
                 \/ call_pre.stats.recovery_attempts >= 3))
        => (Happened("run", "auto") /\ last_ret # ESP_OK)

\* boot_attempts is exactly 3 and the image is byte-identical to its baseline
C1_Witness ==
    /\ Decided
    /\ call_pre.initialized
    /\ call_pre.stats.boot_attempts = 3
    /\ call_pre.stats.recovery_attempts = 0
    /\ call_pre.app_hash = SHA256(PartitionBytes(call_pre.part))
    /\ IS_VALID_FIRMWARE_SIZE(partition_size)
    /\ Happened("run", "auto")
    /\ last_ret # ESP_OK

\* C2: bootloader_check_and_decide returns ESP_OK only when recovery was not
\* forced and the integrity check found the image valid; at that return both
\* attempt counters are 0 and have been persisted, and the call ran no
\* recovery and did not write the application partition.
C2_SingleSuccessExit ==
    (Decided /\ last_ret = ESP_OK)
        => /\ call_pre.stats.boot_attempts < 3
           /\ call_pre.stats.recovery_attempts < 3
           /\ firmware_info.valid
           /\ bootloader_stats.boot_attempts = 0
           /\ bootloader_stats.recovery_attempts = 0
           /\ nvs_stats = Blob(bootloader_stats)
           /\ RunStarts = {}
           /\ ~PartitionWritten
           /\ app_partition = call_pre.part

\* C3: within one call of bootloader_check_and_decide recovery runs at most
\* twice; the manual run starts only after the automatic run ended in Failed;
\* esp_restart is called if and only if a run ended in Success; ESP_FAIL is
\* returned only after both runs ended in Failed, and nothing is run after.
C3_EscalationOrder ==
    Decided
        => /\ Cardinality(RunStarts) <= 2
           /\ Cardinality(EventsAt("run", "auto")) <= 1
           /\ Cardinality(EventsAt("run", "manual")) <= 1
           /\ \A i \in EventsAt("run", "manual") :
                 \E j \in EventsAt("state", "auto") :
                    j < i /\ call_log[j].val = RECOVERY_STATE_FAILED
           /\ (Happened("esp_restart", "check") /\ last_ret = NO_RETURN)
                 <=> (\/ RunEnded("auto", RECOVERY_STATE_SUCCESS)
                      \/ RunEnded("manual", RECOVERY_STATE_SUCCESS))
           /\ Happened("esp_restart", "check") <=> last_ret = NO_RETURN
           /\ last_ret = ESP_FAIL
                 => /\ RunEnded("auto", RECOVERY_STATE_FAILED)
                    /\ \E k \in EventsAt("state", "manual") :
                          /\ call_log[k].val = RECOVERY_STATE_FAILED
                          /\ \A i \in RunStarts : i < k

\* the automatic run failed, the manual run succeeded and the device restarts
C3_Witness ==
    /\ Decided
    /\ RunEnded("auto", RECOVERY_STATE_FAILED)
    /\ RunEnded("manual", RECOVERY_STATE_SUCCESS)
    /\ last_ret = NO_RETURN

\* C4: when the automatic and the manual run both fail,
\* bootloader_check_and_decide returns ESP_FAIL without calling esp_restart,
\* and the persisted recovery_attempts is 2 more than at the start of the call.
C4_BothRunsFail ==
    (Decided /\ RunEnded("auto", RECOVERY_STATE_FAILED)
             /\ RunEnded("manual", RECOVERY_STATE_FAILED))
        => /\ last_ret = ESP_FAIL
           /\ ~Happened("esp_restart", "check")
           /\ nvs_stats.present
           /\ nvs_stats.val.recovery_attempts = call_pre.stats.recovery_attempts + 2

\* C5: in every recovery run flash_firmware_from_sd is called only after, in
\* the same run, the card was mounted, a candidate was found and
\* verify_sd_firmware_integrity succeeded for the path that is flashed; a run
\* without a successful verification does not write the application partition.
C5_NoUnverifiedFlash ==
    /\ \A stage \in {"auto", "manual"} :
          /\ \A i \in EventsAt("flash_call", stage) \cup EventsAt("ota_begin", stage)
                      \cup EventsAt("ota_write", stage) :
                \E r \in EventsAt("run", stage), f \in EventsAt("found", stage),
                   v \in EventsAt("verified", stage) :
                   /\ r < f /\ f < v /\ v < i
                   /\ call_log[f].path = call_log[i].path
                   /\ call_log[v].path = call_log[i].path
                   /\ \E st \in EventsAt("state", stage) :
                         /\ v < st /\ st < i
                         /\ call_log[st].val = RECOVERY_STATE_FLASHING
                   /\ sd_mounted
                   /\ \E mt \in DOMAIN call_log :
                         mt < f /\ call_log[mt].ev = "mounted"
          /\ ~Happened("verified", stage)
                => /\ ~Happened("flash_call", stage)
                   /\ ~Happened("ota_begin", stage)
                   /\ ~Happened("ota_write", stage)
    /\ ~(Happened("verified", "auto") \/ Happened("verified", "manual"))
          => app_partition = call_pre.part

\* the manual run flashes the candidate it verified, after the automatic run
\* failed
C5_Witness ==
    /\ RunEnded("auto", RECOVERY_STATE_FAILED)
    /\ Happened("verified", "manual")
    /\ Happened("ota_write", "manual")
    /\ app_partition # call_pre.part

Verified == last_op = "verify_app_partition_integrity"

\* the call started with a stored baseline that is not the digest of the image
BaselineDiffers ==
    /\ call_pre.app_hash # NoHash
    /\ call_pre.app_hash # SHA256(PartitionBytes(call_pre.part))

\* what a detected corruption looks like to the caller
MismatchReported ==
    /\ last_ret = ESP_ERR_INVALID_CRC
    /\ ~firmware_info.valid
    /\ ~firmware_info.hash_match
    /\ firmware_info.calculated_hash = SHA256(PartitionBytes(call_pre.part))
    /\ firmware_info.stored_hash = call_pre.app_hash
    /\ nvs_app_hash = call_pre.app_hash

\* C6 as stated: whenever a baseline D1 is stored and the image hashes to
\* D2 # D1, verify_app_partition_integrity returns ESP_ERR_INVALID_CRC with
\* valid = false, hash_match = false, calculated_hash = D2, stored_hash = D1,
\* and leaves the baseline unchanged.
C6_CorruptionDetection_Original ==
    (Verified /\ BaselineDiffers) => MismatchReported

\* C6: the same, for a call made with the integrity checker initialised on a
\* partition of an accepted size, unless the call fails with the error of the
\* platform step that failed (partition lookup, buffer allocation, flash
\* read, baseline read).
C6_CorruptionDetection ==
    (/\ Verified
     /\ BaselineDiffers
     /\ call_pre.ic_init
     /\ IS_VALID_FIRMWARE_SIZE(partition_size)
     /\ last_ret \notin {ESP_FAIL, ESP_ERR_NO_MEM, ESP_ERR_FLASH_OP_FAIL})
        => MismatchReported

\* a corrupted image is reported
C6_Witness ==
    /\ Verified
    /\ BaselineDiffers
    /\ call_pre.ic_init
    /\ IS_VALID_FIRMWARE_SIZE(partition_size)
    /\ MismatchReported

\* C7: whenever no baseline is stored, verify_app_partition_integrity returns
\* ESP_OK with valid = true and hash_match = true, and the store then holds
\* the calculated digest of the running image as baseline.
C7_FirstBootTrust ==
    (Verified /\ call_pre.app_hash = NoHash)
        => /\ last_ret = ESP_OK
           /\ firmware_info.valid
           /\ firmware_info.hash_match
           /\ nvs_app_hash = SHA256(PartitionBytes(app_partition))
           /\ nvs_app_hash = firmware_info.calculated_hash

\* flash_firmware_from_sd returned ESP_OK in the last call: it is the only
\* way esp_ota_set_boot_partition is reached and passed
FlashSucceeded == Happened("set_boot", "auto") \/ Happened("set_boot", "manual")

\* the statics after the restart that follows the last call
AfterRestart ==
    [Machine EXCEPT !.stats = ZeroStats, !.handle = FALSE, !.initialized = FALSE,
                    !.ic_init = FALSE, !.mounted = FALSE, !.pending = FALSE]

\* C8: whenever flash_firmware_from_sd returns ESP_OK the stored baseline is
\* the SHA-256 of the new content of the running partition, and the integrity
\* check of the next boot passes.
C8_PostFlashBaseline ==
    FlashSucceeded
        => /\ nvs_app_hash = SHA256(PartitionBytes(app_partition))
           /\ verify_app_partition_integrity(bootloader_init(AfterRestart, {}), {}).ret
                 = ESP_OK

\* C9: when the automatic run of bootloader_check_and_decide succeeds, the
\* persisted statistics hold, before esp_restart is called, total_recoveries
\* one more than at the start, recovery_attempts = 0 and last_boot_reason =
\* SD_RECOVERY.
C9_AutoRecoverySuccess ==
    (Decided /\ RunEnded("auto", RECOVERY_STATE_SUCCESS))
        => /\ \E sv \in EventsAt("nvs_save", "stats"), rs \in EventsAt("esp_restart", "check") :
                 sv < rs
           /\ nvs_stats.present
           /\ nvs_stats.val.total_recoveries = call_pre.stats.total_recoveries + 1
           /\ nvs_stats.val.recovery_attempts = 0
           /\ nvs_stats.val.last_boot_reason = BOOT_REASON_SD_RECOVERY

\* C10: after bootloader_mark_boot_successful returns on an initialised
\* bootloader, boot_attempts and recovery_attempts read 0 through
\* bootloader_get_stats and in the persisted blob; the other fields of the
\* statistics are unchanged.
C10_CounterReset ==
    (last_op = "bootloader_mark_boot_successful" /\ call_pre.initialized)
        => /\ bootloader_get_stats(Machine).ret = ESP_OK
           /\ bootloader_get_stats(Machine).stats.boot_attempts = 0
           /\ bootloader_get_stats(Machine).stats.recovery_attempts = 0
           /\ nvs_stats.present
           /\ nvs_stats.val.boot_attempts = 0
           /\ nvs_stats.val.recovery_attempts = 0
           /\ bootloader_stats = [call_pre.stats EXCEPT !.boot_attempts = 0,
                                                        !.recovery_attempts = 0]

\* C11 (under CrashLoopSpec, where bootloader_mark_boot_successful is never
\* called): after 3 boots in each of which bootloader_init and
\* bootloader_check_and_decide ran and the integrity check passed (3 boots
\* are persisted and no recovery was ever recorded), should_force_recovery
\* is true in the next boot and bootloader_check_and_decide runs recovery.
C11_UnconfirmedBootsForceRecovery ==
    /\ (/\ last_op = "bootloader_init"
        /\ last_ret = ESP_OK
        /\ call_pre.nvs_stats.present
        /\ call_pre.nvs_stats.val.total_boots >= 3
        /\ call_pre.nvs_stats.val.total_recoveries = 0)
          => (\/ bootloader_stats.boot_attempts >= 3
              \/ bootloader_stats.recovery_attempts >= 3)
    /\ (/\ Decided
        /\ call_pre.stats.total_boots > 3
        /\ call_pre.stats.total_recoveries = 0)
          => Happened("run", "auto")

\* C12: no operation other than bootloader_mark_boot_successful takes
\* boot_attempts or recovery_attempts from a non-zero value to 0.
C12_ResetOnlyByMark ==
    (last_op \in {"bootloader_init", "bootloader_check_and_decide",
                  "bootloader_force_recovery"})
        => /\ call_pre.stats.boot_attempts # 0 => bootloader_stats.boot_attempts # 0
           /\ call_pre.stats.recovery_attempts # 0 => bootloader_stats.recovery_attempts # 0
           /\ (call_pre.nvs_stats.present /\ call_pre.nvs_stats.val.boot_attempts # 0)
                 => (nvs_stats.val.boot_attempts # 0 /\ bootloader_stats.boot_attempts # 0)
           /\ (call_pre.nvs_stats.present /\ call_pre.nvs_stats.val.recovery_attempts # 0)
                 => (nvs_stats.val.recovery_attempts # 0
                     /\ bootloader_stats.recovery_attempts # 0)

\* C13: whenever bootloader_init, bootloader_check_and_decide,
\* bootloader_mark_boot_successful or bootloader_force_recovery returns on an
\* initialised bootloader, the persisted "stats" blob equals the statistics
\* in memory.
C13_WriteThrough ==
    (/\ last_op \in {"bootloader_init", "bootloader_check_and_decide",
                     "bootloader_mark_boot_successful", "bootloader_force_recovery"}
     /\ last_ret # NO_RETURN
     /\ bootloader_initialized)
        => nvs_stats = Blob(bootloader_stats)

\* the last call left the statics and everything persisted as they were
NothingChanged ==
    /\ bootloader_stats = call_pre.stats
    /\ bootloader_nvs_handle = call_pre.handle
    /\ bootloader_initialized = call_pre.initialized
    /\ integrity_checker_initialized = call_pre.ic_init
    /\ sd_mounted = call_pre.mounted
    /\ nvs_stats = call_pre.nvs_stats
    /\ nvs_app_hash = call_pre.app_hash
    /\ app_partition = call_pre.part
    /\ sd_files = call_pre.sd

FreshAfterInit ==
    /\ call_pre.initialized
    /\ call_pre.nvs_stats = NoBlob
    /\ call_pre.app_hash = NoHash
    /\ call_pre.stats = [ZeroStats EXCEPT !.first_boot = TRUE,
                                          !.boot_attempts = 1,
                                          !.total_boots = 1]

\* C15: on a fresh device, bootloader_check_and_decide called after
\* bootloader_init returns ESP_OK without starting a recovery run, the
\* baseline stored is the digest of the running image, and the persisted
\* statistics have first_boot = TRUE and total_boots = 1.
C15_ScenarioFirstBoot ==
    (Decided /\ FreshAfterInit)
        => /\ last_ret = ESP_OK
           /\ RunStarts = {}
           /\ nvs_app_hash = SHA256(PartitionBytes(app_partition))
           /\ nvs_stats.present
           /\ nvs_stats.val.first_boot
           /\ nvs_stats.val.total_boots = 1

\* the card of the call held the given image with a digest file of 64
\* characters that spell the SHA-256 of the image
ValidPair(firmware_path, hash_path) ==
    /\ call_pre.card
    /\ call_pre.sd[firmware_path].exists
    /\ call_pre.sd[hash_path].exists
    /\ call_pre.sd[hash_path].len = 64
    /\ call_pre.sd[hash_path].data = SHA256(call_pre.sd[firmware_path].data)

\* the card of the call held both files of the given candidate
CompletePair(firmware_path, hash_path) ==
    /\ call_pre.card
    /\ call_pre.sd[firmware_path].exists
    /\ call_pre.sd[hash_path].exists

\* flash_firmware_from_sd was called in the given run and did not succeed
WriterFailed(stage) == Happened("flash_call", stage) /\ ~Happened("set_boot", stage)

\* C16: bootloader_check_and_decide called with both counters below 3, a
\* stored baseline that differs from the digest of the running image, a card
\* that mounts and holds base_firmware.bin with a matching digest file (and
\* no update pair), and no failure of flash_firmware_from_sd: the automatic
\* run ends in SUCCESS, esp_restart is called instead of returning, and the
\* persisted total_recoveries is one more than before.
C16_ScenarioAutoRecovery ==
    (/\ Decided
     /\ call_pre.initialized
     /\ call_pre.stats.boot_attempts < 3
     /\ call_pre.stats.recovery_attempts < 3
     /\ BaselineDiffers
     /\ ValidPair(SD_BASE_FIRMWARE_PATH, SD_BASE_FIRMWARE_HASH_PATH)
     /\ ~CompletePair(SD_UPDATE_FIRMWARE_PATH, SD_UPDATE_FIRMWARE_HASH_PATH)
     /\ (call_pre.mounted \/ Happened("mounted", "auto"))
     /\ ~WriterFailed("auto"))
        => /\ RunEnded("auto", RECOVERY_STATE_SUCCESS)
           /\ last_ret = NO_RETURN
           /\ Happened("esp_restart", "check")
           /\ nvs_stats.present
           /\ nvs_stats.val.total_recoveries = call_pre.stats.total_recoveries + 1

Found == last_op = "find_recovery_firmware"

\* C17: find_recovery_firmware on a card that is or gets mounted returns
\* ESP_OK with the two update paths when update.bin and update.bin.sha256
\* both exist, whatever else is on the card; otherwise ESP_OK with the two
\* base paths when base_firmware.bin and its digest file both exist;
\* otherwise ESP_ERR_NOT_FOUND with no path written.
C17_CandidatePriority ==
    (Found /\ sd_mounted)
        => IF CompletePair(SD_UPDATE_FIRMWARE_PATH, SD_UPDATE_FIRMWARE_HASH_PATH)
           THEN /\ last_ret = ESP_OK
                /\ found_paths = [firmware_path |-> SD_UPDATE_FIRMWARE_PATH,
                                  hash_path |-> SD_UPDATE_FIRMWARE_HASH_PATH]
           ELSE IF CompletePair(SD_BASE_FIRMWARE_PATH, SD_BASE_FIRMWARE_HASH_PATH)
           THEN /\ last_ret = ESP_OK
                /\ found_paths = [firmware_path |-> SD_BASE_FIRMWARE_PATH,
                                  hash_path |-> SD_BASE_FIRMWARE_HASH_PATH]
           ELSE /\ last_ret = ESP_ERR_NOT_FOUND
                /\ found_paths = NoPaths

\* both candidates were complete and the update candidate was returned
C17_Witness ==
    /\ Found
    /\ sd_mounted
    /\ CompletePair(SD_UPDATE_FIRMWARE_PATH, SD_UPDATE_FIRMWARE_HASH_PATH)
    /\ CompletePair(SD_BASE_FIRMWARE_PATH, SD_BASE_FIRMWARE_HASH_PATH)
    /\ last_ret = ESP_OK
    /\ found_paths.firmware_path = SD_UPDATE_FIRMWARE_PATH

IsStateOf(stage, e) == e.ev = "state" /\ e.stage = stage

\* the values written to the output state by the run of the given stage
StatesWritten(stage) ==
    LET evs == SelectSeq(call_log, LAMBDA e : IsStateOf(stage, e))
    IN  [i \in 1..Len(evs) |-> evs[i].val]

StateOrder ==
    <<RECOVERY_STATE_SD_MOUNT, RECOVERY_STATE_FIRMWARE_VERIFY, RECOVERY_STATE_FLASHING,
      RECOVERY_STATE_CLEANUP, RECOVERY_STATE_SUCCESS>>

RunStages == {"auto", "manual"}

\* C18: the values one perform_full_sd_recovery run writes to its output
\* state are SD_MOUNT, FIRMWARE_VERIFY, FLASHING, CLEANUP, SUCCESS in this
\* order without repetition, or a beginning of that list followed by FAILED
\* as the last value written; IDLE is never written.
C18_StateMonotonic ==
    \A stage \in RunStages :
        Happened("run", stage)
            => LET w == StatesWritten(stage)
               IN  /\ \A i \in DOMAIN w : w[i] # RECOVERY_STATE_IDLE
                   /\ \/ w = StateOrder
                      \/ \E k \in 1..4 :
                            w = SubSeq(StateOrder, 1, k) \o <<RECOVERY_STATE_FAILED>>

\* a run failed in its verification step, after two forward steps
C18_Witness ==
    StatesWritten("auto") = <<RECOVERY_STATE_SD_MOUNT, RECOVERY_STATE_FIRMWARE_VERIFY,
                              RECOVERY_STATE_FAILED>>

Forced == last_op = "bootloader_force_recovery"

\* C19: the run made by bootloader_force_recovery returned ESP_OK (the call
\* restarts) exactly when the last value of its output state is SUCCESS, and
\* returned an error (which the call returns) exactly when it is FAILED; no
\* run of any operation ends with SD_MOUNT, FIRMWARE_VERIFY, FLASHING or
\* CLEANUP as the last value.
C19_TerminalStateAgrees ==
    /\ \A stage \in RunStages :
          Happened("run", stage)
              => LET w == StatesWritten(stage)
                 IN  /\ w # <<>>
                     /\ w[Len(w)] \in {RECOVERY_STATE_SUCCESS, RECOVERY_STATE_FAILED}
    /\ Forced
          => LET w == StatesWritten("auto")
             IN  /\ w # <<>>
                 /\ last_ret = NO_RETURN <=> w[Len(w)] = RECOVERY_STATE_SUCCESS
                 /\ last_ret \notin {NO_RETURN, ESP_OK} <=> w[Len(w)] = RECOVERY_STATE_FAILED

\* the write of a verified candidate failed and the run returned its error
C19_Witness ==
    /\ Forced
    /\ Happened("verified", "auto")
    /\ WriterFailed("auto")
    /\ last_ret = ESP_ERR_FLASH_OP_FAIL
    /\ RunEnded("auto", RECOVERY_STATE_FAILED)

\* the digest file of the candidate with the given image path
HashPathOf(firmware_path) ==
    IF firmware_path = SD_UPDATE_FIRMWARE_PATH THEN SD_UPDATE_FIRMWARE_HASH_PATH
    ELSE SD_BASE_FIRMWARE_HASH_PATH

\* C20: a run of bootloader_force_recovery that fails with
\* ESP_ERR_INVALID_CRC found a candidate whose digest file holds 64
\* characters that differ from the SHA-256 of the whole image file; one that
\* fails with ESP_ERR_NOT_FOUND ran on a card with no complete candidate
\* pair.  A file that is there and cannot be read gives neither result.
C20_DistinctFailureKinds ==
    /\ (Forced /\ last_ret = ESP_ERR_INVALID_CRC)
          => \E i \in EventsAt("found", "auto") :
                LET fw == call_log[i].path
                IN  /\ call_pre.sd[HashPathOf(fw)].len = 64
                    /\ call_pre.sd[HashPathOf(fw)].data # SHA256(call_pre.sd[fw].data)
    /\ (Forced /\ last_ret = ESP_ERR_NOT_FOUND)
          => /\ ~CompletePair(SD_UPDATE_FIRMWARE_PATH, SD_UPDATE_FIRMWARE_HASH_PATH)
             /\ ~CompletePair(SD_BASE_FIRMWARE_PATH, SD_BASE_FIRMWARE_HASH_PATH)

\* the calls that close a write session: esp_ota_end, whatever it returns,
\* and esp_ota_abort
SessionClosings(stage) ==
    EventsAt("ota_end", stage) \cup EventsAt("ota_end_failed", stage)
        \cup EventsAt("ota_abort", stage)

\* C21: in each run, a write session that esp_ota_begin opened is closed by
\* exactly one later call: esp_ota_end when the chunk writes succeeded,
\* esp_ota_abort when the buffer allocation or a chunk write failed;
\* esp_ota_set_boot_partition is called only after an esp_ota_end that
\* succeeded; and bootloader_force_recovery returns the error of the step
\* of flash_firmware_from_sd that failed.
C21_WriteSessionProtocol ==
    /\ \A stage \in RunStages :
          /\ Cardinality(EventsAt("ota_begin", stage)) <= 1
          /\ Cardinality(SessionClosings(stage))
                = Cardinality(EventsAt("ota_begin", stage))
          /\ \A c \in SessionClosings(stage) :
                \E b \in EventsAt("ota_begin", stage) : b < c
          /\ Happened("ota_abort", stage)
                <=> (Happened("ota_begin", stage) /\ ~Happened("ota_write", stage))
          /\ \A a \in EventsAt("set_boot", stage) \cup EventsAt("set_boot_failed", stage) :
                \E e \in EventsAt("ota_end", stage) : e < a
    /\ (Forced /\ Happened("ota_abort", "auto"))
          => last_ret \in {ESP_ERR_NO_MEM, ESP_ERR_FLASH_OP_FAIL}
    /\ (Forced /\ Happened("ota_end_failed", "auto"))
          => last_ret = ESP_ERR_OTA_VALIDATE_FAILED
    /\ (Forced /\ Happened("set_boot_failed", "auto"))
          => last_ret = ESP_ERR_FLASH_OP_FAIL

\* a chunk write failed in an open session and the session was aborted
C21_Witness ==
    /\ Forced
    /\ Happened("ota_begin", "auto")
    /\ Happened("ota_abort", "auto")
    /\ last_ret = ESP_ERR_FLASH_OP_FAIL
    /\ app_partition = TornImage

\* the run of the given stage handed the update image to the writer
UpdateFlashed(stage) ==
    \E i \in EventsAt("set_boot", stage) : call_log[i].path = SD_UPDATE_FIRMWARE_PATH

\* what a recovery run started now, with nothing failing, would do
LaterRun == perform_full_sd_recovery(AfterRestart, {}, "auto")

\* C22: after a run that wrote the update candidate and ended in SUCCESS,
\* with no remove() failing, update.bin and update.bin.sha256 are gone from
\* the card and the rest of the card is as before; a later run on that card
\* does not hand update.bin to flash_firmware_from_sd.
C22_CleanupAfterUpdate ==
    \A stage \in RunStages :
        (/\ UpdateFlashed(stage)
         /\ RunEnded(stage, RECOVERY_STATE_SUCCESS)
         /\ ~Happened("remove_failed", stage))
            => /\ ~sd_files[SD_UPDATE_FIRMWARE_PATH].exists
               /\ ~sd_files[SD_UPDATE_FIRMWARE_HASH_PATH].exists
               /\ sd_files[SD_BASE_FIRMWARE_PATH] = call_pre.sd[SD_BASE_FIRMWARE_PATH]
               /\ sd_files[SD_BASE_FIRMWARE_HASH_PATH]
                     = call_pre.sd[SD_BASE_FIRMWARE_HASH_PATH]
               /\ \A i \in DOMAIN LaterRun.log :
                     LaterRun.log[i].ev = "flash_call"
                         => LaterRun.log[i].path # SD_UPDATE_FIRMWARE_PATH

\* the update was written from a card that also holds the base pair, the
\* two update files were removed, and a later run writes the base image
C22_Witness ==
    /\ UpdateFlashed("auto")
    /\ RunEnded("auto", RECOVERY_STATE_SUCCESS)
    /\ Happened("removed", "auto")
    /\ ~Happened("remove_failed", "auto")
    /\ call_pre.sd[SD_BASE_FIRMWARE_PATH].exists
    /\ ~sd_files[SD_UPDATE_FIRMWARE_PATH].exists
    /\ \E i \in DOMAIN LaterRun.log :
          /\ LaterRun.log[i].ev = "flash_call"
          /\ LaterRun.log[i].path = SD_BASE_FIRMWARE_PATH

\* C23: when a read of the running partition fails in
\* verify_app_partition_integrity the call returns the read error, reports
\* no calculated digest and stores no baseline; when fread fails on the
\* candidate image in the run of bootloader_force_recovery, the run returns
\* an error that is not ESP_ERR_INVALID_CRC and nothing is written.
C23_NoPartialDigests ==
    /\ (Verified /\ last_ret = ESP_ERR_FLASH_OP_FAIL)
          => /\ firmware_info.calculated_hash = 0
             /\ nvs_app_hash = call_pre.app_hash
    /\ (Forced /\ Happened("fread_error", "auto"))
          => /\ last_ret \notin {ESP_OK, NO_RETURN, ESP_ERR_INVALID_CRC}
             /\ ~Happened("flash_call", "auto")

ReadDone == last_op = "read_hex_hash_file"

\* the characters 0-9 and a-f
LowerHex == (48..57) \cup (97..102)

\* C24: read_hex_hash_file on a digest file it can open whose length is not
\* 64 characters, shorter or longer, returns ESP_ERR_INVALID_SIZE and
\* decodes nothing.
C24_DigestFileLength ==
    (ReadDone /\ last_ret # ESP_ERR_NOT_FOUND /\ Len(hex_file) # 64)
        => (last_ret = ESP_ERR_INVALID_SIZE /\ hash_output = <<>>)

\* C25: read_hex_hash_file and hex_string_to_hash return ESP_OK only for
\* content whose first 64 characters are all in 0-9, a-f.
C25_DigestFileFormat ==
    (last_op \in {"read_hex_hash_file", "hex_string_to_hash"} /\ last_ret = ESP_OK)
        => \A i \in 1..64 : hex_file[i] \in LowerHex

\* the lower-case hex digit of a nibble
LowerDigit(n) == IF n < 10 THEN 48 + n ELSE 87 + n

WrittenBefore == \E i \in DOMAIN call_log : call_log[i].ev = "write_hex_hash_file"

\* C26: the file write_hex_hash_file wrote for a digest holds 64 characters,
\* for each byte in order the lower-case digit of its high nibble and then
\* of its low nibble; read_hex_hash_file on that file, when it can open it,
\* returns ESP_OK and the digest that was written.
C26_HexRoundTrip ==
    /\ last_op = "write_hex_hash_file"
          => /\ Len(hex_file) = 64
             /\ \A i \in 1..32 :
                   /\ hex_file[2 * i - 1] = LowerDigit(hash_input[i] \div 16)
                   /\ hex_file[2 * i] = LowerDigit(hash_input[i] % 16)
    /\ (ReadDone /\ WrittenBefore /\ last_ret # ESP_ERR_NOT_FOUND)
          => (last_ret = ESP_OK /\ hash_output = hash_input)

\* a digest whose bytes use the digits a-f in both nibbles was written and
\* read back
C26_Witness ==
    /\ ReadDone
    /\ WrittenBefore
    /\ last_ret = ESP_OK
    /\ hash_output = hash_input
    /\ \E i \in 1..32 : hash_input[i] \div 16 >= 10 /\ hash_input[i] % 16 < 10
    /\ \E i \in 1..32 : hash_input[i] \div 16 < 10 /\ hash_input[i] % 16 >= 10

\* C27: a candidate image whose size is not in [FIRMWARE_MIN_SIZE,
\* FIRMWARE_MAX_SIZE] is never passed to flash_firmware_from_sd by a
\* recovery run, and the run of bootloader_force_recovery that found it
\* fails with ESP_ERR_INVALID_SIZE.
C27_CandidateSize ==
    \A stage \in RunStages :
        \A f \in EventsAt("found", stage) :
            ~IS_VALID_FIRMWARE_SIZE(call_pre.sd[call_log[f].path].len)
                => /\ ~Happened("flash_call", stage)
                   /\ Forced => last_ret = ESP_ERR_INVALID_SIZE

\* C28: when the automatic run of bootloader_check_and_decide fails,
\* enter_recovery_mode is called with BOOT_REASON_MULTIPLE_FAILURES if the
\* call started with a counter at 3 or more, and with BOOT_REASON_CORRUPTION
\* otherwise.
C28_ManualRecoveryReason ==
    Decided
        => \A i \in EventsAt("enter_recovery_mode", "manual") :
              call_log[i].path =
                  IF \/ call_pre.stats.boot_attempts >= 3
                     \/ call_pre.stats.recovery_attempts >= 3
                  THEN BOOT_REASON_MULTIPLE_FAILURES
                  ELSE BOOT_REASON_CORRUPTION

\* the number of runs of the last call that ended in the given state
RunsEnded(st) == Cardinality({stage \in RunStages : RunEnded(stage, st)})

\* C29: after bootloader_check_and_decide or bootloader_force_recovery,
\* total_recoveries has grown by the number of recovery runs of the call
\* that ended in SUCCESS; a call whose runs all failed leaves it unchanged.
C29_TotalRecoveries ==
    (Decided \/ Forced)
        => bootloader_stats.total_recoveries
              = call_pre.stats.total_recoveries + RunsEnded(RECOVERY_STATE_SUCCESS)

\* the value of BOOTLOADER_IS_FIRST_BOOT() in the current state
BOOTLOADER_IS_FIRST_BOOT ==
    LET got == bootloader_get_stats(Machine)
    IN  IF got.ret = ESP_OK THEN got.stats.first_boot ELSE FALSE

\* C30: after the bootloader_init of a boot, BOOTLOADER_IS_FIRST_BOOT() is
\* TRUE when the statistics were created with defaults in this boot, and
\* FALSE when they were loaded from the store.
C30_FirstBootFlag ==
    (last_op = "bootloader_init" /\ last_ret = ESP_OK /\ ~call_pre.initialized)
        => (BOOTLOADER_IS_FIRST_BOOT <=> ~call_pre.nvs_stats.present)

\* C31: called while bootloader_initialized is FALSE, bootloader_get_stats
\* returns ESP_ERR_INVALID_STATE, and bootloader_check_and_decide and
\* bootloader_force_recovery return ESP_ERR_INVALID_STATE without starting
\* a recovery run and without changing the partition, the persisted store
\* or the statics.
C31_RejectedBeforeInit ==
    /\ (last_op = "bootloader_get_stats" /\ ~call_pre.initialized)
          => (last_ret = ESP_ERR_INVALID_STATE /\ NothingChanged)
    /\ ((Decided \/ Forced) /\ ~call_pre.initialized)
          => /\ last_ret = ESP_ERR_INVALID_STATE
             /\ RunStarts = {}
             /\ ~PartitionWritten
             /\ NothingChanged

\* C32: bootloader_run_self_test leaves the persisted statistics, the
\* stored baseline and the files of the SD card as they were, also when no
\* baseline is stored.
C32_SelfTestReadOnly ==
    last_op = "bootloader_run_self_test"
        => /\ nvs_stats = call_pre.nvs_stats
           /\ nvs_app_hash = call_pre.app_hash
           /\ sd_files = call_pre.sd

\* update_perform flashed an image and reached esp_restart
UpdateRestarted == last_op = "update_perform" /\ last_ret = NO_RETURN

\* C33: whenever update_perform reaches esp_restart after flashing the
\* downloaded image or the fallback image, the stored baseline is the
\* SHA-256 of the running partition as flashed, and the integrity check of
\* the next boot does not report corruption.
C33_OtaBaseline ==
    UpdateRestarted
        => /\ nvs_app_hash = SHA256(PartitionBytes(app_partition))
           /\ verify_app_partition_integrity(bootloader_init(AfterRestart, {}), {}).ret
                 = ESP_OK

\* the calls of op that returned in this boot before the last call
EarlierCalls(op) ==
    {i \in 1..(Len(boot_history) - 1) : boot_history[i].op = op}

\* C34 as stated: the application reads the boot statistics only after
\* bootloader_mark_boot_successful has returned in that boot.
C34_ReadAfterMark_Original ==
    last_op = "bootloader_get_stats"
        => EarlierCalls("bootloader_mark_boot_successful") # {}

\* C34: app_main reads the boot statistics (BOOTLOADER_IS_FIRST_BOOT) after
\* bootloader_check_and_decide has returned ESP_OK in that boot and before
\* it calls bootloader_mark_boot_successful.
C34_ReadAfterCheck ==
    last_op = "bootloader_get_stats"
        => /\ \E i \in EarlierCalls("bootloader_check_and_decide") :
                 boot_history[i].ret = ESP_OK
           /\ EarlierCalls("bootloader_mark_boot_successful") = {}

C34_Witness ==
    /\ last_op = "bootloader_get_stats"
    /\ last_ret = ESP_OK
    /\ stats_out.first_boot
    /\ stats_out.total_boots > 1

\* bootloader_init and bootloader_check_and_decide of the boot that follows
\* the restart, with no fault
NextBoot ==
    bootloader_check_and_decide(bootloader_init(AfterRestart, {}), {}, esp_log_timestamp)

\* bootloader_check_and_decide restarted the device after a successful run
RecoveredAndRestarted ==
    /\ Decided
    /\ last_ret = NO_RETURN
    /\ call_pre.initialized
    /\ RunEnded("auto", RECOVERY_STATE_SUCCESS) \/ RunEnded("manual", RECOVERY_STATE_SUCCESS)

\* C35: after bootloader_check_and_decide restarted the device on a
\* successful recovery, bootloader_check_and_decide of the next boot returns
\* ESP_OK without starting a recovery run or writing the partition, for
\* every value the counters had when the recovery started.
C35_NormalBootAfterRecovery ==
    RecoveredAndRestarted
        => /\ NextBoot.ret = ESP_OK
           /\ \A i \in DOMAIN NextBoot.log : NextBoot.log[i].ev \notin {"run", "ota_begin"}
           /\ NextBoot.part = app_partition

\* C36: when a recovery run reports success, the partition holds the bytes
\* of the image file that was verified: a read that fails or comes up short
\* while flashing never leaves a truncated image finalised, activated and
\* reported as RECOVERY_STATE_SUCCESS.
C36_FlashedIsVerified ==
    \A stage \in {"auto", "manual"} :
        ((Decided \/ Forced) /\ RunEnded(stage, RECOVERY_STATE_SUCCESS))
            => \A i \in EventsAt("set_boot", stage) :
                   /\ app_partition = call_pre.sd[call_log[i].path].data
                   /\ \E v \in EventsAt("verified", stage) :
                         /\ v < i
                         /\ call_log[v].path = call_log[i].path
                         /\ call_log[v].val = SHA256(app_partition)

\* what verify_app_partition_integrity returned to bootloader_check_and_decide
IntegrityResults ==
    {call_log[i].path : i \in EventsAt("integrity_result", "check")}

\* the values bootloader_check_and_decide gave last_boot_reason on entry to
\* the recovery path
ReasonsSet == {call_log[i].path : i \in EventsAt("boot_reason", "check")}

\* C37: when bootloader_check_and_decide is called with both counters below
\* 3 and verify_app_partition_integrity returns anything but ESP_OK (size
\* rejected, read error, baseline unreadable, digest mismatch), the call
\* sets last_boot_reason to BOOT_REASON_CORRUPTION, starts the automatic
\* recovery run and does not return ESP_OK.
C37_AnyIntegrityFailureRecovers ==
    (/\ Decided
     /\ call_pre.stats.boot_attempts < 3
     /\ call_pre.stats.recovery_attempts < 3
     /\ IntegrityResults # {ESP_OK})
        => /\ ReasonsSet = {BOOT_REASON_CORRUPTION}
           /\ \E r \in EventsAt("boot_reason", "check"), a \in EventsAt("run", "auto") : r < a
           /\ last_ret # ESP_OK

\* the partition has a size outside the accepted range
C37_Witness ==
    /\ Decided
    /\ call_pre.initialized
    /\ call_pre.stats.boot_attempts < 3
    /\ call_pre.stats.recovery_attempts < 3
    /\ IntegrityResults = {ESP_ERR_INVALID_SIZE}
    /\ ReasonsSet = {BOOT_REASON_CORRUPTION}
    /\ Happened("run", "auto")
    /\ last_ret = NO_RETURN

\* the events of the call that name one of the two files of the base candidate
BaseTouched ==
    {i \in DOMAIN call_log :
        call_log[i].path \in {SD_BASE_FIRMWARE_PATH, SD_BASE_FIRMWARE_HASH_PATH}}

\* C38: when the card holds both files of the update candidate and the
\* digest file does not match the image, every recovery run of the call ends
\* in RECOVERY_STATE_FAILED without looking at the base candidate, the call
\* does not succeed, the card and the partition are left as they were, and in
\* bootloader_check_and_decide the automatic and the manual run both fail;
\* this also with a valid base pair on the card.
C38_NoFallbackToBase ==
    (/\ Decided \/ Forced
     /\ CompletePair(SD_UPDATE_FIRMWARE_PATH, SD_UPDATE_FIRMWARE_HASH_PATH)
     /\ ~ValidPair(SD_UPDATE_FIRMWARE_PATH, SD_UPDATE_FIRMWARE_HASH_PATH))
        => /\ \A stage \in RunStages :
                 Happened("run", stage)
                     => /\ RunEnded(stage, RECOVERY_STATE_FAILED)
                        /\ ~RunEnded(stage, RECOVERY_STATE_SUCCESS)
                        /\ ~Happened("verified", stage)
                        /\ ~Happened("flash_call", stage)
           /\ BaseTouched = {}
           /\ sd_files = call_pre.sd
           /\ app_partition = call_pre.part
           /\ Forced => (Happened("run", "auto") /\ last_ret \notin {ESP_OK, NO_RETURN})
           /\ (Decided /\ RunStarts # {})
                 => /\ Happened("run", "auto")
                    /\ Happened("run", "manual")
                    /\ last_ret = ESP_FAIL

\* the base pair of the card is valid and both runs found the update image
C38_Witness ==
    /\ Decided
    /\ CompletePair(SD_UPDATE_FIRMWARE_PATH, SD_UPDATE_FIRMWARE_HASH_PATH)
    /\ ~ValidPair(SD_UPDATE_FIRMWARE_PATH, SD_UPDATE_FIRMWARE_HASH_PATH)
    /\ ValidPair(SD_BASE_FIRMWARE_PATH, SD_BASE_FIRMWARE_HASH_PATH)
    /\ \A stage \in RunStages :
          /\ \E i \in EventsAt("found", stage) : call_log[i].path = SD_UPDATE_FIRMWARE_PATH
          /\ RunEnded(stage, RECOVERY_STATE_FAILED)
    /\ last_ret = ESP_FAIL
    /\ sd_files = call_pre.sd

\* the run of the given stage wrote the base candidate
BaseFlashed(stage) ==
    \E i \in EventsAt("set_boot", stage) : call_log[i].path = SD_BASE_FIRMWARE_PATH

\* the files of the update candidate
UpdatePaths == {SD_UPDATE_FIRMWARE_PATH, SD_UPDATE_FIRMWARE_HASH_PATH}

StatsLoaded ==
    /\ last_op = "bootloader_init"
    /\ last_ret = ESP_OK
    /\ ~call_pre.initialized
    /\ call_pre.nvs_stats.present

\* the call recorded at least one failed recovery and no successful one
FailureRecorded ==
    \/ Decided /\ last_ret = ESP_FAIL
    \/ Forced /\ last_ret \notin {ESP_OK, NO_RETURN}

\* C40: the increment of boot_attempts in bootloader_init and the increment
\* of recovery_attempts in record_recovery_event always yield a larger
\* value of the 8-bit counter, so that once a persisted counter is >= 3
\* should_force_recovery is true in every later boot until the counters
\* are reset.
C40_CountersNeverWrap ==
    /\ StatsLoaded
          => /\ bootloader_stats.boot_attempts > call_pre.nvs_stats.val.boot_attempts
             /\ (\/ call_pre.nvs_stats.val.boot_attempts >= 3
                 \/ call_pre.nvs_stats.val.recovery_attempts >= 3)
                   => (\/ bootloader_stats.boot_attempts >= 3
                       \/ bootloader_stats.recovery_attempts >= 3)
    /\ FailureRecorded
          => bootloader_stats.recovery_attempts > call_pre.stats.recovery_attempts

=============================================================================
